---- MODULE Spec2Model ----
(***************************************************************************)
(* A model of the data-synchronization core of dashboard-ui:               *)
(*   - src/services/storage.js    the localStorage cache with TTL          *)
(*   - src/services/websocket.js  WebSocketClient (in src/services/api.js) *)
(*   - src/hooks/useDashboardData.js   useDashboardData and useProfile     *)
(* Time is in milliseconds, as Date.now() gives it.                        *)
(***************************************************************************)
EXTENDS Integers, Sequences, FiniteSets, TLC

VARIABLES
  now,            \* Date.now()
  ticks,          \* how many times the clock has advanced
  localStorage,   \* window.localStorage: key -> stored text, or NoItem
  written,        \* history: per cache key, the last explicit write not yet explicitly cleared
  ret,            \* the last storage call made from outside and what it returned
  ws,             \* the WebSocketClient singleton's fields
  sockets,        \* the browser's WebSocket objects that are not closed yet
  created,        \* how many WebSocket objects have been constructed
  wsLog,          \* what the last client step did (scheduled a reconnect, gave up)
  hook,           \* useDashboardData: state, refs, and the fetches in flight
  prof,           \* useProfile: state, refs, and the requests in flight
  backend,        \* history: the last snapshot and profile the backend gave out, and
                  \* the number of profile pushes it made
  ev              \* the kind of the last step taken

storageVars == <<localStorage, written, ret>>
clockVars   == <<now, ticks>>
wsVars      == <<ws, sockets, created, wsLog>>
vars == <<now, ticks, localStorage, written, ret, ws, sockets, created, wsLog,
          hook, prof, backend, ev>>

(***************************************************************************)
(* Bounds of the model                                                     *)
(***************************************************************************)
StartTime == 1         \* Date.now() when the page loads: a positive number of ms
MaxTicks == 3          \* clock advances, in the cache's specification
MaxSyncTicks == 2      \* clock advances, in the synchronizer's specification
MaxSockets == 2        \* WebSocket objects constructed per page load, in the synchronizer's specification
MaxChannelSockets == 6 \* the same, in the channel's own specification
MaxChannelTicks == 1   \* clock advances, in the channel's own specification
MaxLiveSockets == 2    \* sockets whose close event the browser has yet to deliver
MaxBackoffSockets == 6 \* WebSocket objects constructed, in the reconnect schedule's specification
MaxBackoffLive == 1    \* sockets not yet closed, in the reconnect schedule's specification
MaxMergeTicks == 2     \* clock advances, in the pushed snapshots' specification
MaxFallbackSockets == 3 \* WebSocket objects constructed, in the fallback's specification
MaxPollLive == 1       \* sockets not yet closed, in the polling fallback's specification
MaxRefreshTicks == 2   \* clock advances, in the manual refresh's specification
MaxEditTicks == 1      \* clock advances, in the profile boundary's specification
MaxEditCalls == 1      \* setProfile calls accepted, in the profile boundary's specification
MaxEditPushes == 1     \* profile:changed pushes, in the profile push's specification
MaxPushCalls == 1      \* setProfile calls accepted, in the profile push's specification
MaxHistoryCalls == 11  \* saveProfile calls, in the profile history's specification
MaxHistoryTicks == 1   \* clock advances, in the profile history's specification
MaxPushes == 1         \* profile:changed messages delivered
MaxInflight == 2       \* requests of useDashboardData awaiting their response
MaxCalls == 2          \* setProfile calls accepted
MaxPollSockets == 2    \* WebSocket objects constructed, in the polling specification
MaxColdSockets == 2    \* the same, in the cold start
MaxColdTicks == 2      \* clock advances, in the cold start
MaxProfileTicks == 1   \* clock advances, in the profile's specification
MaxResolveTicks == 2   \* clock advances, in the initial profile's specification
MaxSavedProfiles == 2  \* saveProfile calls of the earlier life of the page

(***************************************************************************)
(* JavaScript values                                                       *)
(***************************************************************************)
JsNull   == [kind |-> "null"]
Infinity == [kind |-> "infinity"]
Num(n)   == [kind |-> "number", val |-> n]
Str(s)   == [kind |-> "string", val |-> s]
Obj(f)   == [kind |-> "object", fields |-> f]
List(s)  == [kind |-> "array", items |-> s]

\* JSON.stringify of a number: Infinity (like NaN) has no JSON form and is written null
JSONStringifyNumber(x) == IF x = Infinity THEN JsNull ELSE x

\* ToNumber, as the relational operators apply it: null is 0
ToNumber(x) == IF x = JsNull THEN 0 ELSE x.val

\* a > b of two values that are numbers or null
JsGreater(a, b) == ToNumber(a) > ToNumber(b)

(***************************************************************************)
(* storage.js                                                              *)
(***************************************************************************)
CACHE_TTL_DASHBOARD == 60000
CACHE_TTL_PROFILE == Infinity

DASHBOARD_DATA  == "dashboard_data"
PROFILE_CURRENT == "profile_current"
PROFILE_HISTORY == "profile_history"
LAST_VALID_DATA == "last_valid_data"
CACHE_KEYS == {DASHBOARD_DATA, PROFILE_CURRENT, PROFILE_HISTORY, LAST_VALID_DATA}

STORAGE_PREFIX == "dashboard_ui_"
getNamespacedKey(key) == <<STORAGE_PREFIX, key>>
startsWithPrefix(k) == k[1] = STORAGE_PREFIX

\* an item of another application sharing the origin's localStorage
ForeignKey == <<"", "theme">>
StorageKeys == {getNamespacedKey(k) : k \in CACHE_KEYS} \cup {ForeignKey}

NoItem == [kind |-> "none"]
ForeignItem == [kind |-> "text", text |-> "dark"]

\* JSON.stringify(cacheEntry): the text stored. data is a JSON value already
\* (a parsed response, a profile id, the history list); timestamp is finite.
JSONStringify(entry) ==
  [kind |-> "json", data |-> entry.data, timestamp |-> entry.timestamp,
   ttl |-> JSONStringifyNumber(entry.ttl)]

\* JSON.parse of a stored text: an object with the text's data, timestamp and ttl
JSONParse(text) == [data |-> text.data, timestamp |-> text.timestamp, ttl |-> text.ttl]

\* a text JSON.parse throws on
Unparsable(text) == text.kind # "json"

setItem(ls, k, text) == [ls EXCEPT ![k] = text]
removeItem(ls, k) == [ls EXCEPT ![k] = NoItem]

\* the expiry test with the boundary on the wrong side: an entry aged exactly ttl expires
isExpiredAtTtl(cacheEntry, t) ==
  /\ cacheEntry.ttl # Infinity
  /\ ~JsGreater(cacheEntry.ttl, Num(t - cacheEntry.timestamp))

\* lines 141-144 and 242-245: the expiry test of a parsed entry at time t
isExpired(cacheEntry, t) ==
  /\ cacheEntry.ttl # Infinity
  /\ JsGreater(Num(t - cacheEntry.timestamp), cacheEntry.ttl)

saveToCache(ls, key, data, ttl, t) ==
  setItem(ls, getNamespacedKey(key),
          JSONStringify([data |-> data, timestamp |-> t, ttl |-> ttl]))

\* a clearCache that removes nothing
clearCacheKeeping(ls, key) == ls

clearCache(ls, key) == removeItem(ls, getNamespacedKey(key))

\* getFromCache returns a value and may remove the entry: both results
getFromCache(ls, key, t) ==
  LET cached == ls[getNamespacedKey(key)] IN
  IF cached = NoItem THEN [value |-> JsNull, ls |-> ls]
  ELSE IF Unparsable(cached) THEN [value |-> JsNull, ls |-> ls]
  ELSE LET cacheEntry == JSONParse(cached) IN
       IF isExpired(cacheEntry, t)
       THEN [value |-> JsNull, ls |-> clearCache(ls, key)]
       ELSE [value |-> cacheEntry.data, ls |-> ls]

clearAllCache(ls) ==
  [k \in DOMAIN ls |-> IF startsWithPrefix(k) THEN NoItem ELSE ls[k]]

cleanupExpiredCache(ls, t) ==
  [k \in DOMAIN ls |->
     IF startsWithPrefix(k) /\ ls[k] # NoItem
     THEN IF Unparsable(ls[k]) THEN NoItem
          ELSE IF isExpired(JSONParse(ls[k]), t) THEN NoItem ELSE ls[k]
     ELSE ls[k]]

getProfileHistory(ls, t) ==
  LET r == getFromCache(ls, PROFILE_HISTORY, t) IN
  [value |-> IF r.value = JsNull THEN <<>> ELSE r.value.items, ls |-> r.ls]

\* [newEntry, ...history].slice(0, 10)
HistoryCap == 10
slice(s, n) == IF Len(s) <= n THEN s ELSE SubSeq(s, 1, n)

saveProfile(ls, profile, t) ==
  LET ls1 == saveToCache(ls, PROFILE_CURRENT, Str(profile), CACHE_TTL_PROFILE, t)
      h == getProfileHistory(ls1, t)
      newEntry == [profile |-> profile, timestamp |-> t]
      updatedHistory == slice(<<newEntry>> \o h.value, HistoryCap)
  IN saveToCache(h.ls, PROFILE_HISTORY, List(updatedHistory), CACHE_TTL_PROFILE, t)

getStoredProfile(ls, t) == getFromCache(ls, PROFILE_CURRENT, t)

saveLastData(ls, data, t) == saveToCache(ls, LAST_VALID_DATA, data, Infinity, t)

getLastData(ls, t) == getFromCache(ls, LAST_VALID_DATA, t)

\* the history of explicit writes: what was last written under a key, with the ttl
\* the caller gave, until clearCache or clearAllCache removes the key
NoWrite == [kind |-> "none"]
noteWrite(w, key, data, ttl, t) ==
  [w EXCEPT ![key] = [kind |-> "write", data |-> data, ttl |-> ttl, timestamp |-> t]]
noteClear(w, key) == [w EXCEPT ![key] = NoWrite]
noteSaveProfile(w, profile, ls, t) ==
  noteWrite(noteWrite(w, PROFILE_CURRENT, Str(profile), CACHE_TTL_PROFILE, t),
            PROFILE_HISTORY,
            JSONParse(saveProfile(ls, profile, t)[getNamespacedKey(PROFILE_HISTORY)]).data,
            CACHE_TTL_PROFILE, t)

(***************************************************************************)
(* WebSocketClient (services/websocket.js, kept in src/services/api.js)    *)
(***************************************************************************)
CONNECTING   == "connecting"
CONNECTED    == "connected"
DISCONNECTED == "disconnected"
ERROR        == "error"
WS_STATES == {CONNECTING, CONNECTED, DISCONNECTED, ERROR}

maxReconnectAttempts == 5
reconnectDelay == 1000
maxReconnectDelay == 30000
heartbeatInterval == 15000

\* delays are kept in 1/DelayScale ms: 1000 * 1.5^k is a whole number of them for k <= 4
DelayScale == 16
Pow(b, e) == IF e = 0 THEN 1 ELSE IF e = 1 THEN b ELSE IF e = 2 THEN b * b
             ELSE IF e = 3 THEN b * b * b ELSE b * b * b * b
Min(a, b) == IF a <= b THEN a ELSE b

\* a delay that halves with every attempt
backoffDelayHalving(attempts) == (reconnectDelay * DelayScale) \div Pow(2, attempts - 1)

\* Math.min(this.reconnectDelay * Math.pow(1.5, attempts - 1), this.maxReconnectDelay),
\* for attempts in 1..maxReconnectAttempts, times DelayScale
backoffDelay(attempts) ==
  Min((reconnectDelay * Pow(3, attempts - 1) * DelayScale) \div Pow(2, attempts - 1),
      maxReconnectDelay * DelayScale)

\* the client as its constructor leaves it
\* the events of WS_EVENTS that reach subscribers (pong never does)
WS_EVENTS == {"connection", "dashboard:update", "error", "state:change"}

\* eventHandlers is a Map from event to a Set of callbacks, which iterates in
\* insertion order; an event without an entry is an event without callbacks
wsConstructed ==
  [state |-> DISCONNECTED, reconnectAttempts |-> 0, reconnectTimer |-> FALSE,
   timerDelay |-> 0, heartbeatTimer |-> FALSE, lastPongTime |-> JsNull,
   shouldReconnect |-> FALSE, sock |-> 0,
   eventHandlers |-> [e \in WS_EVENTS |-> <<>>]]

\* the statuses of a WebSocket object that is not closed yet:
\*   connecting, open, closing (close() called on an open socket),
\*   closingEarly (close() called before the connection was established),
\*   failed (the error event was delivered; the close event follows)
NoLog == [what |-> "none"]

\* the result of a client step: the client, the sockets, the state:change events
\* emitted (their newState, in order), and what the step scheduled
Step(w, ss, chg, log) == [ws |-> w, sockets |-> ss, chg |-> chg, log |-> log]

\* _setState: the state is replaced and a state:change emitted only when it differs
setStateTo(w, newState) == IF w.state # newState THEN [w EXCEPT !.state = newState] ELSE w
\* a _setState that emits state:change without comparing the states
setStateEmitsAlways(w, newState) == <<newState>>

setStateEmits(w, newState) == IF w.state # newState THEN <<newState>> ELSE <<>>

closeSocket(ss, id) ==
  {IF s.id = id
   THEN [s EXCEPT !.status = IF s.status = "connecting" THEN "closingEarly"
                             ELSE IF s.status = "open" THEN "closing" ELSE s.status]
   ELSE s : s \in ss}

\* a connect(url) whose early return also clears the attempt counter
connectClearingAttempts(w, ss, id) ==
  IF w.state \in {CONNECTED, CONNECTING}
  THEN Step([w EXCEPT !.reconnectAttempts = 0], ss, <<>>, NoLog)
  ELSE Step([w EXCEPT !.shouldReconnect = TRUE, !.state = CONNECTING, !.sock = id],
            ss \cup {[id |-> id, status |-> "connecting"]},
            <<CONNECTING>>, [what |-> "opened", id |-> id])

\* connect(url) when new WebSocket(url) returns a socket with identity id
connect(w, ss, id) ==
  IF w.state \in {CONNECTED, CONNECTING}
  THEN Step(w, ss, <<>>, NoLog)
  ELSE Step([w EXCEPT !.shouldReconnect = TRUE, !.state = CONNECTING, !.sock = id],
            ss \cup {[id |-> id, status |-> "connecting"]},
            <<CONNECTING>>, [what |-> "opened", id |-> id])

\* connect(url) when new WebSocket(url) throws (lines 457-463)
connectThrows(w, ss) ==
  IF w.state \in {CONNECTED, CONNECTING}
  THEN Step(w, ss, <<>>, NoLog)
  ELSE Step([w EXCEPT !.shouldReconnect = TRUE, !.state = ERROR],
            ss, <<CONNECTING, ERROR>>, [what |-> "threw"])

disconnect(w, ss) ==
  LET w1 == [w EXCEPT !.shouldReconnect = FALSE, !.reconnectTimer = FALSE,
                      !.heartbeatTimer = FALSE]
      ss1 == IF w.sock # 0 THEN closeSocket(ss, w.sock) ELSE ss
  IN Step(setStateTo([w1 EXCEPT !.sock = 0], DISCONNECTED), ss1,
          setStateEmits(w1, DISCONNECTED), [what |-> "disconnect"])

handleOpen(w, ss, t) ==
  Step([setStateTo(w, CONNECTED) EXCEPT !.reconnectAttempts = 0,
          !.heartbeatTimer = TRUE, !.lastPongTime = Num(t)],
       ss, setStateEmits(w, CONNECTED), [what |-> "open"])

handleError(w, ss) ==
  Step(setStateTo(w, ERROR), ss, setStateEmits(w, ERROR), [what |-> "error"])

\* _attemptReconnect
attemptReconnect(w) ==
  IF w.reconnectAttempts >= maxReconnectAttempts
  THEN [ws |-> w, log |-> [what |-> "gave_up"]]
  ELSE LET n == w.reconnectAttempts + 1 IN
       [ws |-> [w EXCEPT !.reconnectAttempts = n, !.reconnectTimer = TRUE,
                         !.timerDelay = backoffDelay(n)],
        log |-> [what |-> "scheduled", delay |-> backoffDelay(n)]]

handleClose(w, ss) ==
  LET w1 == setStateTo([w EXCEPT !.heartbeatTimer = FALSE], DISCONNECTED)
      r == IF w1.shouldReconnect THEN attemptReconnect(w1)
           ELSE [ws |-> w1, log |-> [what |-> "closed"]]
  IN Step(r.ws, ss, setStateEmits(w, DISCONNECTED), r.log)

\* the reconnect timer's callback
reconnectTimerFires(w, ss, id) ==
  LET w1 == [w EXCEPT !.reconnectTimer = FALSE] IN
  IF w1.shouldReconnect THEN connect(w1, ss, id) ELSE Step(w1, ss, <<>>, NoLog)

\* this.ws.send(message): the message leaves on an open socket; it is discarded on
\* a closing or closed one, and send throws, which the client catches, when there
\* is no socket or it is still connecting
socketSends(w, ss) == \E s \in ss : s.id = w.sock /\ s.status = "open"

\* the heartbeat interval's callback. lastPongTime is Date.now() of a running
\* browser, never 0, so it is truthy whenever it is set
heartbeatFires(w, ss, t) ==
  IF w.state = CONNECTED
  THEN IF w.lastPongTime # JsNull /\ t - w.lastPongTime.val > heartbeatInterval * 2
       THEN Step(w, IF w.sock # 0 THEN closeSocket(ss, w.sock) ELSE ss, <<>>,
                 [what |-> "stale_close"])
       ELSE Step(w, ss, <<>>, [what |-> "ping", sent |-> socketSends(w, ss)])
  ELSE Step(w, ss, <<>>, NoLog)

handlePong(w, ss, t) == Step([w EXCEPT !.lastPongTime = Num(t)], ss, <<>>, [what |-> "pong"])

(***************************************************************************)
(* More JavaScript: truthiness, property access, object spread             *)
(***************************************************************************)
Undefined == [kind |-> "undefined"]
Bool(b)   == [kind |-> "boolean", val |-> b]

Truthy(v) ==
  /\ v \notin {JsNull, Undefined, Bool(FALSE), Num(0), Str("")}

\* o.name, and o?.name of a null o
Get(o, name) ==
  IF o.kind = "object" /\ name \in DOMAIN o.fields THEN o.fields[name] ELSE Undefined

\* 'name' in o
HasKey(o, name) == o.kind = "object" /\ name \in DOMAIN o.fields

\* a || b
OrElse(a, b) == IF Truthy(a) THEN a ELSE b

\* the fields of {...a, ...b}: spreading null or undefined adds nothing
FieldsOf(o) == IF o.kind = "object" THEN o.fields ELSE <<>>

\* a merge that adds b's numbers to a's instead of replacing them
SpreadAccumulating(a, b) ==
  LET fa == FieldsOf(a)
      fb == FieldsOf(b)
  IN Obj([k \in (DOMAIN fa) \cup (DOMAIN fb) |->
            IF k \in DOMAIN fb
            THEN IF k \in DOMAIN fa /\ fa[k].kind = "number" /\ fb[k].kind = "number"
                 THEN Num(fa[k].val + fb[k].val)
                 ELSE fb[k]
            ELSE fa[k]])

Spread(a, b) ==
  LET fa == FieldsOf(a)
      fb == FieldsOf(b)
  IN Obj([k \in (DOMAIN fa) \cup (DOMAIN fb) |-> IF k \in DOMAIN fb THEN fb[k] ELSE fa[k]])

\* new Date().toISOString() at time t
toISOString(t) == [kind |-> "string", iso |-> t]

(***************************************************************************)
(* services/api.js: what a wrapped API function resolves to                *)
(***************************************************************************)
\* the outcome of apiClient.get/post: a parsed body, or a thrown ApiError
Returned(body) == [ok |-> TRUE, body |-> body]
Thrown(message) == [ok |-> FALSE, message |-> message]

wrapApiCall(outcome) ==
  IF outcome.ok
  THEN IF HasKey(outcome.body, "success") THEN outcome.body
       ELSE Obj([success |-> Bool(TRUE), data |-> outcome.body])
  ELSE Obj([success |-> Bool(FALSE), error |-> Str(outcome.message), data |-> JsNull])

(***************************************************************************)
(* config/api.js and apiClient: the candidate base URLs and one request    *)
(***************************************************************************)
\* a base URL, as far as buildFallbackUrls reads it: its host and its port ("" when
\* the URL names none)
Url(host, port) == [host |-> host, port |-> port]
DEFAULT_HTTP == Url("localhost", "3001")

\* the host replacements API_BASE_URLS is built with
Replacements ==
  << <<"dashboard-api-production", "ctaaapi-production">>,
     <<"ctaaapi-production", "dashboard-api-production">>,
     <<"localhost", "host.docker.internal">> >>

\* urlSet.add(u): a Set keeps insertion order and no duplicates
SetAdd(urls, u) == IF \E i \in 1..Len(urls) : urls[i] = u THEN urls ELSE Append(urls, u)

RECURSIVE addReplacements(_, _, _, _)
addReplacements(urls, primaryUrl, replacements, i) ==
  IF i > Len(replacements) THEN urls
  ELSE addReplacements(
         IF primaryUrl.host = replacements[i][1]
         THEN SetAdd(urls, Url(replacements[i][2], primaryUrl.port))
         ELSE urls,
         primaryUrl, replacements, i + 1)

\* buildFallbackUrls in a browser whose page was served from windowHostname
buildFallbackUrls(primaryUrl, replacements, windowHostname) ==
  LET replaced == addReplacements(<<primaryUrl>>, primaryUrl, replacements, 1)
      port == IF primaryUrl.port = "" THEN "3001" ELSE primaryUrl.port
  IN SetAdd(replaced, Url(windowHostname, port))

\* import.meta.env.VITE_API_URL || DEFAULT_HTTP, for the deployments modelled
RawApiUrls == {DEFAULT_HTTP, Url("dashboard-api-production", ""), Url("tv.local", "3001")}
WindowHostnames == {"localhost", "tv.local"}

API_BASE_URLS(env) == buildFallbackUrls(env.rawApiUrl, Replacements, env.hostname)
API_BASE_URL(env) == API_BASE_URLS(env)[1]

\* what a host does with a request: answers 2xx, answers with an error status, does
\* not answer within REQUEST_TIMEOUT, or cannot be connected to
HostBehaviours == {"ok", "status", "timeout", "refused"}
MaxCandidates == 3
HostIds == 1..MaxCandidates

ApiError(message, status) == [ok |-> FALSE, message |-> message, status |-> status]
BodyOf(i) == Obj([servedBy |-> Num(i)])

\* fetch raced against the timeout, then _handleResponse or _handleError
requestOutcome(behaviour, i) ==
  CASE behaviour = "ok" -> Returned(BodyOf(i))
    [] behaviour = "status" -> ApiError("HTTP 500", 500)
    [] behaviour = "timeout" -> ApiError("Request timeout - please try again", 408)
    [] behaviour = "refused" -> ApiError("Network error - cannot reach server", 0)

\* apiClient.get and apiClient.post: one fetch, to API_BASE_URL
apiClientRequest(env, hosts) ==
  [calls |-> <<API_BASE_URL(env)>>, outcome |-> requestOutcome(hosts[1], 1)]

(***************************************************************************)
(* useDashboardData                                                        *)
(***************************************************************************)
\* the profiles the display switches between, and the backend's payload versions
SyncProfiles == {"default", "morning"}
MaxVersion == 2
Snap(p, v) == Obj([mode |-> Str(p), weather |-> Num(v), tasks |-> Num(v)])
Snapshots == {Snap(p, v) : p \in SyncProfiles, v \in 1..MaxVersion}

NoFetches == [p \in SyncProfiles |-> 0]

\* the hook of a component that is not mounted: useState's and useRef's initial values
hookInitial ==
  [mounted |-> FALSE, data |-> JsNull, loading |-> TRUE, error |-> JsNull,
   lastUpdated |-> JsNull, pollingTimer |-> FALSE, intervals |-> 0,
   profileRef |-> "default", inflight |-> NoFetches, refreshing |-> 0]

InFlight(h) == h.inflight["default"] + h.inflight["morning"]

\* the hook together with the storage it writes: what its callbacks change
St(h, ls, w) == [hook |-> h, ls |-> ls, written |-> w]

updateData(st, newData, t) ==
  IF ~st.hook.mounted THEN st
  ELSE IF Truthy(newData) /\ newData.kind = "object"
  THEN St([st.hook EXCEPT !.data = newData, !.lastUpdated = Num(t), !.error = JsNull],
          saveLastData(saveToCache(st.ls, DASHBOARD_DATA, newData, Num(CACHE_TTL_DASHBOARD), t),
                       newData, t),
          noteWrite(noteWrite(st.written, DASHBOARD_DATA, newData, Num(CACHE_TTL_DASHBOARD), t),
                    LAST_VALID_DATA, newData, Infinity, t))
  ELSE st

\* a setLoading that leaves the loading flag as it was
setLoadingDropped(st, b) == st

setLoading(st, b) == [st EXCEPT !.hook.loading = b]
setError(st, e) == [st EXCEPT !.hook.error = e]

\* a fetchData that issues no request once an error is showing
fetchDataStartUnlessFailed(st, useCache, t) ==
  IF st.hook.error # JsNull THEN st
  ELSE [st EXCEPT !.hook.inflight[st.hook.profileRef] = @ + 1]

\* fetchData up to its await: the cache-first step, then the request is issued
fetchDataStart(st, useCache, t) ==
  LET r == getFromCache(st.ls, DASHBOARD_DATA, t)
      st1 == IF useCache
             THEN IF Truthy(r.value)
                  THEN setLoading(updateData([st EXCEPT !.ls = r.ls], r.value, t), FALSE)
                  ELSE [st EXCEPT !.ls = r.ls]
             ELSE st
  IN [st1 EXCEPT !.hook.inflight[st1.hook.profileRef] = @ + 1]

\* fetchData after its await, with the response getDashboardData resolved to
fetchDataSettle(st, response, t) ==
  IF ~st.hook.mounted THEN st
  ELSE IF Truthy(response) /\ (Truthy(Get(response, "success")) \/ Truthy(Get(response, "data")))
  THEN setLoading(updateData(st, OrElse(Get(response, "data"), response), t), FALSE)
  ELSE LET message == OrElse(Get(response, "error"), Str("Failed to fetch dashboard data"))
           c == getFromCache(st.ls, DASHBOARD_DATA, t)
           l == getLastData(c.ls, t)
           st1 == [st EXCEPT !.ls = l.ls]
       IN setLoading(
            IF Truthy(c.value) \/ Truthy(l.value)
            THEN setError(updateData(st1, OrElse(c.value, l.value), t),
                          Str("Using cached data - server unavailable"))
            ELSE setError(st1, OrElse(message, Str("Failed to load dashboard data"))),
            FALSE)

\* a startPolling without the test of the timer it already holds
startPollingUnguarded(h) == [h EXCEPT !.pollingTimer = TRUE, !.intervals = @ + 1]

startPolling(h) ==
  IF h.pollingTimer THEN h ELSE [h EXCEPT !.pollingTimer = TRUE, !.intervals = @ + 1]

stopPolling(h) ==
  IF h.pollingTimer THEN [h EXCEPT !.pollingTimer = FALSE, !.intervals = @ - 1] ELSE h

\* a handler that stops the polling on connected and fetches nothing
handleStateChangeNoResync(st, newState, t) ==
  IF newState = CONNECTED
  THEN [st EXCEPT !.hook = stopPolling(st.hook)]
  ELSE IF newState \in {DISCONNECTED, ERROR}
  THEN [st EXCEPT !.hook = startPolling(st.hook)]
  ELSE st

handleStateChange(st, newState, t) ==
  IF newState = CONNECTED
  THEN fetchDataStart([st EXCEPT !.hook = stopPolling(st.hook)], TRUE, t)
  ELSE IF newState \in {DISCONNECTED, ERROR}
  THEN [st EXCEPT !.hook = startPolling(st.hook)]
  ELSE st

\* a handler that stores the merged snapshot the way a full update is stored
handleDashboardUpdatePersisting(st, incomingData, t) ==
  IF ~Truthy(incomingData) THEN st
  ELSE IF Truthy(Get(incomingData, "partial"))
  THEN updateData(st, Spread(Spread(st.hook.data, incomingData),
                             Obj([timestamp |-> OrElse(Get(incomingData, "timestamp"),
                                                       toISOString(t))])), t)
  ELSE updateData(st, incomingData, t)

\* a partial merge in which the held snapshot's fields win over the update's
handleDashboardUpdateKeepingHeld(st, incomingData, t) ==
  IF ~Truthy(incomingData) THEN st
  ELSE IF Truthy(Get(incomingData, "partial"))
  THEN [st EXCEPT !.hook.data =
          Spread(Spread(incomingData, st.hook.data),
                 Obj([timestamp |-> OrElse(Get(incomingData, "timestamp"), toISOString(t))]))]
  ELSE updateData(st, incomingData, t)

handleDashboardUpdate(st, incomingData, t) ==
  IF ~Truthy(incomingData) THEN st
  ELSE IF Truthy(Get(incomingData, "partial"))
  THEN [st EXCEPT !.hook.data =
          Spread(Spread(st.hook.data, incomingData),
                 Obj([timestamp |-> OrElse(Get(incomingData, "timestamp"), toISOString(t))]))]
  ELSE updateData(st, incomingData, t)

\* the state:change events of one client step, delivered in order to the hook's
\* handler (subscribed exactly while the hook is mounted)
RECURSIVE deliverStateChanges(_, _, _)
deliverStateChanges(st, chg, t) ==
  IF chg = <<>> \/ ~st.hook.mounted THEN st
  ELSE deliverStateChanges(handleStateChange(st, Head(chg), t), Tail(chg), t)

(***************************************************************************)
(* useProfile                                                              *)
(***************************************************************************)
\* config/profiles.js: the keys of PROFILES
KnownProfiles == {"default", "personal", "guest", "morning", "work"}

\* PROFILES is an object literal: PROFILES[name] of a name it does not define is
\* looked up on Object.prototype, whose methods are functions
ObjectPrototypeKeys == {"constructor", "toString", "valueOf", "hasOwnProperty"}
Inherited(name) == [kind |-> "function", name |-> name]

\* getProfile(profileId) == PROFILES[profileId] || null
getProfile(profileId) ==
  IF profileId \in KnownProfiles THEN Obj([id |-> Str(profileId)])
  ELSE IF profileId \in ObjectPrototypeKeys THEN Inherited(profileId)
  ELSE JsNull

\* a validation that accepts every id
isProfileSupportedAlways(profileId) == TRUE

isProfileSupported(profileId) == Truthy(getProfile(profileId))

\* the ids the model supplies as arguments, responses and pushes: three known, one not
ProfileIds == {"default", "morning", "guest", "kiosk"}
DefaultProfiles == {"default", "morning"}

profInitial ==
  [mounted |-> FALSE, defaultProfile |-> "default", currentProfile |-> "default",
   profileConfig |-> getProfile("default"), isLoading |-> TRUE, error |-> JsNull,
   previousProfile |-> "default", initPending |-> FALSE, cachedProfile |-> JsNull,
   pending |-> {}, calls |-> 0]

\* the hook with the storage it writes
Pt(pr, ls, w) == [prof |-> pr, ls |-> ls, written |-> w]

updateProfileState(pt, profileId) ==
  IF ~pt.prof.mounted THEN pt
  ELSE IF Truthy(getProfile(profileId))
  THEN [pt EXCEPT !.prof.currentProfile = profileId,
                  !.prof.profileConfig = getProfile(profileId),
                  !.prof.previousProfile = profileId]
  ELSE [pt EXCEPT !.prof.error = Str(<<"Invalid profile: ", profileId>>)]

\* saveProfile on the hook's storage
saveProfileIn(pt, profileId, t) ==
  [pt EXCEPT !.ls = saveProfile(pt.ls, profileId, t),
             !.written = noteSaveProfile(pt.written, profileId, pt.ls, t)]

\* fetchInitialProfile up to its await
fetchInitialProfileStart(pt, t) ==
  LET r == getStoredProfile(pt.ls, t)
      pt1 == [pt EXCEPT !.ls = r.ls, !.prof.isLoading = TRUE, !.prof.error = JsNull,
                        !.prof.cachedProfile = r.value, !.prof.initPending = TRUE]
  IN IF Truthy(r.value) /\ isProfileSupported(r.value.val)
     THEN updateProfileState(pt1, r.value.val)
     ELSE pt1

\* fetchInitialProfile after its await, with the response getProfileFromAPI resolved to
fetchInitialProfileSettle(pt, response, t) ==
  LET apiProfile == Get(Get(response, "data"), "profile")
      d == pt.prof.defaultProfile
      pt1 ==
        IF Truthy(Get(response, "success")) /\ Truthy(apiProfile)
        THEN IF isProfileSupported(apiProfile.val)
             THEN saveProfileIn(updateProfileState(pt, apiProfile.val), apiProfile.val, t)
             ELSE saveProfileIn(updateProfileState(pt, d), d, t)
        ELSE IF ~Truthy(pt.prof.cachedProfile)
             THEN saveProfileIn(updateProfileState(pt, d), d, t)
             ELSE pt
  IN [pt1 EXCEPT !.prof.initPending = FALSE,
                 !.prof.isLoading = IF pt1.prof.mounted THEN FALSE ELSE @]

\* setProfile up to its await: the optimistic update. The request in flight keeps
\* rollbackProfile; atCall, historyAtCall and duringInit are the history of what was
\* current, what the stored profile history read as, and whether fetchInitialProfile
\* was still awaited, when it was called
setProfileStart(pt, newProfile, t) ==
  LET rollbackProfile == pt.prof.currentProfile
      pt1 == saveProfileIn(updateProfileState(pt, newProfile), newProfile, t)
  IN [pt1 EXCEPT !.prof.error = JsNull,
                 !.prof.calls = @ + 1,
                 !.prof.pending = @ \cup {[id |-> pt.prof.calls + 1, newProfile |-> newProfile,
                                           rollbackProfile |-> rollbackProfile,
                                           atCall |-> pt.prof.currentProfile,
                                           historyAtCall |-> getProfileHistory(pt.ls, t).value,
                                           duringInit |-> pt.prof.initPending]}]

setProfileRejected(pt, newProfile) ==
  [pt EXCEPT !.prof.error = Str(<<"Profile '", newProfile, "' is not supported on this display">>)]

\* setProfile after its await, with the response setProfileViaAPI resolved to
setProfileSettle(pt, op, response, t) ==
  LET pt0 == [pt EXCEPT !.prof.pending = @ \ {op}] IN
  IF ~Truthy(Get(response, "success"))
  THEN LET pt1 == saveProfileIn(updateProfileState(pt0, op.rollbackProfile),
                                op.rollbackProfile, t)
       IN [pt1 EXCEPT !.prof.error = OrElse(OrElse(Get(response, "error"),
                                                   Str("Failed to set profile")),
                                            Str("Failed to set profile"))]
  ELSE pt0

\* a handler that adopts the pushed profile without validating it
handleProfileChangedUnchecked(pt, data, t) ==
  LET newProfile == Get(data, "profile") IN
  IF ~Truthy(newProfile) THEN pt
  ELSE IF newProfile.val = pt.prof.currentProfile THEN pt
  ELSE saveProfileIn(updateProfileState(pt, newProfile.val), newProfile.val, t)

handleProfileChanged(pt, data, t) ==
  LET newProfile == Get(data, "profile") IN
  IF ~Truthy(newProfile) THEN pt
  ELSE IF newProfile.val = pt.prof.currentProfile THEN pt
  ELSE IF isProfileSupported(newProfile.val)
  THEN saveProfileIn(updateProfileState(pt, newProfile.val), newProfile.val, t)
  ELSE pt

(***************************************************************************)
(* The state after the page has loaded: an empty localStorage beside       *)
(* another application's item, the client constructed, nothing mounted     *)
(***************************************************************************)
Init ==
  /\ now = StartTime
  /\ ticks = 0
  /\ localStorage = [k \in StorageKeys |-> IF k = ForeignKey THEN ForeignItem ELSE NoItem]
  /\ written = [k \in CACHE_KEYS |-> NoWrite]
  /\ ret = [op |-> "none"]
  /\ ws = wsConstructed
  /\ sockets = {}
  /\ created = 0
  /\ wsLog = NoLog
  /\ hook = hookInitial
  /\ prof = profInitial
  /\ backend = [snapshot |-> JsNull, profile |-> JsNull, pushes |-> 0]
  /\ ev = [op |-> "init"]

\* the clock advances by 1 ms or by the dashboard TTL
TickSteps == {1, CACHE_TTL_DASHBOARD}
Tick(bound, steps) ==
  \E d \in steps :
    /\ ticks < bound
    /\ now' = now + d
    /\ ticks' = ticks + 1
    /\ ev' = [op |-> "tick"]
    /\ UNCHANGED <<localStorage, written, ret, ws, sockets, created, wsLog, hook, prof, backend>>

(***************************************************************************)
(* storage.js called directly                                              *)
(***************************************************************************)
TtlChoices == {Num(1), Num(CACHE_TTL_DASHBOARD), Infinity}
CallKeys == {DASHBOARD_DATA, LAST_VALID_DATA}
CallData == {Snap("default", 1), Snap("default", 2)}

StorageFrame == UNCHANGED <<now, ticks, ws, sockets, created, wsLog, hook, prof, backend>>

SaveToCacheCall ==
  \E key \in {DASHBOARD_DATA}, data \in CallData, ttl \in TtlChoices :
    /\ localStorage' = saveToCache(localStorage, key, data, ttl, now)
    /\ written' = noteWrite(written, key, data, ttl, now)
    /\ ret' = [op |-> "saveToCache", key |-> key, value |-> Bool(TRUE)]
    /\ ev' = [op |-> "saveToCache"]
    /\ StorageFrame

SaveLastDataCall ==
  \E data \in CallData :
    /\ localStorage' = saveLastData(localStorage, data, now)
    /\ written' = noteWrite(written, LAST_VALID_DATA, data, Infinity, now)
    /\ ret' = [op |-> "saveLastData", key |-> LAST_VALID_DATA, value |-> Bool(TRUE)]
    /\ ev' = [op |-> "saveLastData"]
    /\ StorageFrame

GetFromCacheCall ==
  \E key \in CallKeys :
    LET r == getFromCache(localStorage, key, now) IN
    /\ localStorage' = r.ls
    /\ ret' = [op |-> "getFromCache", key |-> key, value |-> r.value]
    /\ ev' = [op |-> "getFromCache"]
    /\ UNCHANGED written
    /\ StorageFrame

ClearCacheCall ==
  \E key \in CallKeys :
    /\ localStorage' = clearCache(localStorage, key)
    /\ written' = noteClear(written, key)
    /\ ret' = [op |-> "clearCache", key |-> key, value |-> Bool(TRUE)]
    /\ ev' = [op |-> "clearCache"]
    /\ StorageFrame

ClearAllCacheCall ==
  /\ localStorage' = clearAllCache(localStorage)
  /\ written' = [k \in CACHE_KEYS |-> NoWrite]
  /\ ret' = [op |-> "clearAllCache", value |-> Bool(TRUE)]
  /\ ev' = [op |-> "clearAllCache"]
  /\ StorageFrame

CleanupExpiredCacheCall ==
  /\ localStorage' = cleanupExpiredCache(localStorage, now)
  /\ ret' = [op |-> "cleanupExpiredCache",
             value |-> Num(Cardinality({k \in StorageKeys : localStorage'[k] # localStorage[k]}))]
  /\ ev' = [op |-> "cleanupExpiredCache"]
  /\ UNCHANGED written
  /\ StorageFrame

NextStorage ==
  \/ Tick(MaxTicks, TickSteps)
  \/ SaveToCacheCall
  \/ SaveLastDataCall
  \/ GetFromCacheCall
  \/ ClearCacheCall
  \/ ClearAllCacheCall
  \/ CleanupExpiredCacheCall

SpecStorage == Init /\ [][NextStorage]_vars

(***************************************************************************)
(* The page: reload, and the hook's life in its component                  *)
(***************************************************************************)
\* a step of the hook that ends in st: its state and the storage it wrote
HookResult(st) ==
  /\ InFlight(st.hook) + st.hook.refreshing <= MaxInflight
  /\ hook' = st.hook
  /\ localStorage' = st.ls
  /\ written' = st.written

\* the component mounts with the profile prop p: useState and useRef initialise, then
\* the effects run in order: the initial fetch, the subscriptions and the polling
mountHook(h, ls, w, wsState, p, t) ==
  LET h0 == [hookInitial EXCEPT !.mounted = TRUE, !.profileRef = p, !.intervals = h.intervals]
      st1 == fetchDataStart(St(h0, ls, w), TRUE, t)
  IN IF wsState # CONNECTED THEN [st1 EXCEPT !.hook = startPolling(st1.hook)] ELSE st1

HookMount ==
  \E p \in SyncProfiles :
    /\ ~hook.mounted
    /\ HookResult(mountHook(hook, localStorage, written, ws.state, p, now))
    /\ ev' = [op |-> "mount"]
    /\ UNCHANGED <<now, ticks, ret, ws, sockets, created, wsLog, prof, backend>>

\* the component unmounts: both cleanups run. The fetches still awaited return at
\* their isMounted test when they settle, so they are dropped here
HookUnmount ==
  /\ hook.mounted
  /\ hook' = [hookInitial EXCEPT !.intervals = stopPolling(hook).intervals]
  /\ ev' = [op |-> "unmount"]
  /\ UNCHANGED <<now, ticks, localStorage, written, ret, ws, sockets, created, wsLog,
                 prof, backend>>

\* the profile prop changes: the effect of lines 212-215 runs again
ProfileChange ==
  \E p \in SyncProfiles :
    /\ hook.mounted
    /\ p # hook.profileRef
    /\ HookResult(fetchDataStart(St([hook EXCEPT !.profileRef = p], localStorage, written),
                                 TRUE, now))
    /\ ev' = [op |-> "profile_change"]
    /\ UNCHANGED <<now, ticks, ret, ws, sockets, created, wsLog, prof, backend>>

\* the callback of a polling interval that has not been cleared
PollTick ==
  /\ hook.intervals > 0
  /\ IF hook.mounted /\ ws.state # CONNECTED
     THEN /\ HookResult(fetchDataStart(St(hook, localStorage, written), TRUE, now))
          /\ ev' = [op |-> "poll_fetch"]
     ELSE /\ UNCHANGED <<hook, localStorage, written>>
          /\ ev' = [op |-> "poll_skip"]
  /\ UNCHANGED <<now, ticks, ret, ws, sockets, created, wsLog, prof, backend>>

\* what GET /api/dashboard/data?profile=p can come to: the snapshot raw or wrapped,
\* a body reporting failure, or an ApiError (unreachable host, timeout)
FailureOutcomes ==
  {Returned(Obj([success |-> Bool(FALSE), error |-> Str("backend error")])),
   Thrown("Network error - cannot reach server")}
DataOutcomes(p) ==
  {Returned(Snap(p, v)) : v \in 1..MaxVersion}
  \cup {Returned(Obj([success |-> Bool(TRUE), data |-> Snap(p, v)])) : v \in 1..MaxVersion}
  \cup FailureOutcomes

\* the payload a successful outcome carries
PayloadOf(outcome) ==
  IF HasKey(outcome.body, "success") THEN Get(outcome.body, "data") ELSE outcome.body

Succeeds(outcome) == outcome.ok /\ Truthy(PayloadOf(outcome))

\* a fetch's response arrives and fetchData resumes after its await; with the
\* backend unreachable the response is a failure
FetchSettle(unreachable) ==
  \E p \in SyncProfiles :
    \E outcome \in IF unreachable THEN FailureOutcomes ELSE DataOutcomes(p) :
      /\ hook.mounted
      /\ hook.inflight[p] > 0
      /\ HookResult(fetchDataSettle(
           St([hook EXCEPT !.inflight[p] = @ - 1], localStorage, written),
           wrapApiCall(outcome), now))
      /\ IF Succeeds(outcome)
         THEN /\ ev' = [op |-> "fetch_ok"]
              /\ backend' = [backend EXCEPT !.snapshot = PayloadOf(outcome)]
         ELSE /\ ev' = [op |-> "fetch_failed"]
              /\ UNCHANGED backend
      /\ UNCHANGED <<now, ticks, ret, ws, sockets, created, wsLog, prof>>

\* refresh() up to its first await
RefreshCall ==
  /\ hook.mounted
  /\ HookResult(St([hook EXCEPT !.loading = TRUE, !.error = JsNull, !.refreshing = @ + 1],
                   clearCache(localStorage, DASHBOARD_DATA),
                   noteClear(written, DASHBOARD_DATA)))
  /\ ev' = [op |-> "refresh"]
  /\ UNCHANGED <<now, ticks, ret, ws, sockets, created, wsLog, prof, backend>>

\* POST /api/dashboard/refresh settles, either way (refreshDashboard never rejects):
\* refresh goes on to fetchData(false)
RefreshOutcomes ==
  {Returned(Obj([success |-> Bool(TRUE)])), Thrown("Network error - cannot reach server")}

RefreshSettle ==
  \E outcome \in RefreshOutcomes :
    /\ hook.mounted
    /\ hook.refreshing > 0
    /\ HookResult(fetchDataStart(St([hook EXCEPT !.refreshing = @ - 1], localStorage, written),
                                 FALSE, now))
    /\ ev' = [op |-> "refresh_settled",
              regenerated |-> Truthy(Get(wrapApiCall(outcome), "success"))]
    /\ UNCHANGED <<now, ticks, ret, ws, sockets, created, wsLog, prof, backend>>

(***************************************************************************)
(* The push channel: calls, timers, and the events of its sockets          *)
(***************************************************************************)
\* a client step r is taken; its state:change events reach the mounted hook
ClientStep(r, what) ==
  /\ ws' = r.ws
  /\ sockets' = r.sockets
  /\ wsLog' = r.log
  /\ HookResult(deliverStateChanges(St(hook, localStorage, written), r.chg, now))
  /\ ev' = [op |-> what]
  /\ UNCHANGED <<now, ticks, ret, prof, backend>>

Constructs(r) == \E s \in r.sockets : s.id = created + 1

ConnectCall(bound, live) ==
  LET r == connect(ws, sockets, created + 1) IN
  /\ created < bound
  /\ Cardinality(r.sockets) <= live
  /\ created' = IF Constructs(r) THEN created + 1 ELSE created
  /\ ClientStep(r, "connect")

\* connect() where the WebSocket constructor throws
ConnectCallThrows ==
  /\ ws.state \notin {CONNECTED, CONNECTING}
  /\ UNCHANGED created
  /\ ClientStep(connectThrows(ws, sockets), "connect_threw")

DisconnectCall ==
  /\ ev.op # "disconnect"
  /\ UNCHANGED created
  /\ ClientStep(disconnect(ws, sockets), "disconnect")

ReconnectTimerFires(bound, live) ==
  LET r == reconnectTimerFires(ws, sockets, created + 1) IN
  /\ ws.reconnectTimer
  /\ created < bound
  /\ Cardinality(r.sockets) <= live
  /\ created' = IF Constructs(r) THEN created + 1 ELSE created
  /\ ClientStep(r, "reconnect_timer")

HeartbeatFires ==
  /\ ws.heartbeatTimer
  /\ UNCHANGED created
  /\ ClientStep(heartbeatFires(ws, sockets, now), "heartbeat")

withStatus(ss, s, status) == (ss \ {s}) \cup {[s EXCEPT !.status = status]}

SockOpen ==
  \E s \in sockets :
    /\ s.status = "connecting"
    /\ UNCHANGED created
    /\ ClientStep(handleOpen(ws, withStatus(sockets, s, "open"), now), "sock_open")

SockError ==
  \E s \in sockets :
    /\ s.status \in {"connecting", "open", "closingEarly"}
    /\ UNCHANGED created
    /\ ClientStep(handleError(ws, withStatus(sockets, s, "failed")), "sock_error")

SockClose ==
  \E s \in sockets :
    /\ s.status \in {"open", "closing", "closingEarly", "failed"}
    /\ UNCHANGED created
    /\ ClientStep(handleClose(ws, sockets \ {s}), "sock_close")

SockPong ==
  \E s \in sockets :
    /\ s.status = "open"
    /\ UNCHANGED created
    /\ ClientStep(handlePong(ws, sockets, now), "sock_pong")

\* the dashboard:update messages the backend pushes: a full snapshot, or a partial
\* one, with or without a timestamp of its own
PartialUpdates ==
  {Obj([partial |-> Bool(TRUE), tasks |-> Num(9), timestamp |-> Str("T")])}

\* a partial push is logged with the snapshot held before it and the time it arrived
\* at, and with whether it repeats the push logged last
SockPushUpdate(updates) ==
  \E s \in sockets :
    \E incomingData \in updates :
      /\ s.status = "open"
      /\ hook.mounted
      /\ HookResult(handleDashboardUpdate(St(hook, localStorage, written), incomingData, now))
      /\ IF Truthy(Get(incomingData, "partial"))
         THEN /\ ev' = [op |-> "push_partial", update |-> incomingData,
                        before |-> hook.data, at |-> now,
                        again |-> (ev.op = "push_partial" /\ ev.update = incomingData)]
              /\ UNCHANGED backend
         ELSE /\ ev' = [op |-> "push_full"]
              /\ backend' = [backend EXCEPT !.snapshot = incomingData]
      /\ wsLog' = [what |-> "message"]
      /\ UNCHANGED <<now, ticks, ret, ws, sockets, created, prof>>

(***************************************************************************)
(* The display page (core/App.jsx): on load the App mounts once, with the  *)
(* default profile; its effects start the initial fetch and the polling,   *)
(* then useWebSocket connects the client                                   *)
(***************************************************************************)
appLoaded(ls, w, t) ==
  LET st1 == mountHook(hookInitial, ls, w, wsConstructed.state, "default", t)
      r == connect(wsConstructed, {}, 1)
  IN [st |-> deliverStateChanges(st1, r.chg, t), client |-> r]

\* the state after the page has loaded over the localStorage ls
PageLoaded(ls, t) ==
  LET a == appLoaded(ls, written', t) IN
  /\ hook' = a.st.hook
  /\ localStorage' = a.st.ls
  /\ ws' = a.client.ws
  /\ sockets' = a.client.sockets
  /\ created' = 1
  /\ wsLog' = a.client.log

InitApp ==
  LET a == appLoaded([k \in StorageKeys |-> IF k = ForeignKey THEN ForeignItem ELSE NoItem],
                     [k \in CACHE_KEYS |-> NoWrite], StartTime)
  IN /\ now = StartTime
     /\ ticks = 0
     /\ written = a.st.written
     /\ localStorage = a.st.ls
     /\ ret = [op |-> "none"]
     /\ hook = a.st.hook
     /\ ws = a.client.ws
     /\ sockets = a.client.sockets
     /\ created = 1
     /\ wsLog = a.client.log
     /\ prof = profInitial
     /\ backend = [snapshot |-> JsNull, profile |-> JsNull, pushes |-> 0]
     /\ ev = [op |-> "load"]

\* a reload ends every script, timer and socket of the page; localStorage stays,
\* importing storage.js runs initStorage, which cleans the expired entries up, and
\* the App mounts again
Reload ==
  /\ ev.op # "load"
  /\ written' = written
  /\ PageLoaded(cleanupExpiredCache(localStorage, now), now)
  /\ ev' = [op |-> "load"]
  /\ UNCHANGED <<now, ticks, ret, prof, backend>>

(***************************************************************************)
(* The synchronizer of a loaded page, with its channel and its cache       *)
(***************************************************************************)
Next ==
  \/ Tick(MaxSyncTicks, TickSteps)
  \/ Reload
  \/ ProfileChange
  \/ PollTick
  \/ FetchSettle(FALSE)
  \/ ReconnectTimerFires(MaxSockets, MaxLiveSockets)
  \/ SockOpen
  \/ SockError
  \/ SockClose
  \/ SockPushUpdate(Snapshots \cup PartialUpdates)

Spec == InitApp /\ [][Next]_vars

(***************************************************************************)
(* The push channel on its own: the client's calls, timers and sockets     *)
(***************************************************************************)
NextChannel ==
  \/ Tick(MaxChannelTicks, TickSteps)
  \/ ConnectCall(MaxChannelSockets, MaxLiveSockets)
  \/ ConnectCallThrows
  \/ DisconnectCall
  \/ ReconnectTimerFires(MaxChannelSockets, MaxLiveSockets)
  \/ HeartbeatFires
  \/ SockOpen
  \/ SockError
  \/ SockClose
  \/ SockPong

SpecChannel == Init /\ [][NextChannel]_vars

(***************************************************************************)
(* The reconnect schedule: every step of the client that counts attempts   *)
(* or sets a delay, through all six sockets of a run of failures           *)
(***************************************************************************)
NextBackoff ==
  \/ ConnectCall(MaxBackoffSockets, MaxBackoffLive)
  \/ ConnectCallThrows
  \/ DisconnectCall
  \/ ReconnectTimerFires(MaxBackoffSockets, MaxBackoffLive)
  \/ SockOpen
  \/ SockError
  \/ SockClose

SpecBackoff == Init /\ [][NextBackoff]_vars

(***************************************************************************)
(* The polling fallback: the hook mounted and unmounted beside a client    *)
(* that any code of the page may connect and disconnect                    *)
(***************************************************************************)
NextPolling ==
  \/ HookMount
  \/ HookUnmount
  \/ PollTick
  \/ FetchSettle(FALSE)
  \/ ConnectCall(MaxPollSockets, MaxPollLive)
  \/ ConnectCallThrows
  \/ DisconnectCall
  \/ ReconnectTimerFires(MaxPollSockets, MaxPollLive)
  \/ HeartbeatFires
  \/ SockOpen
  \/ SockError
  \/ SockClose
  \/ SockPong

SpecPolling == Init /\ [][NextPolling]_vars

(***************************************************************************)
(* A cold start: the page loads over an empty cache and the backend is     *)
(* unreachable, so no socket opens and every request fails. REQUEST_TIMEOUT*)
(* settles every request, which is the fairness of FetchSettle             *)
(***************************************************************************)
NextColdStart ==
  \/ Tick(MaxColdTicks, TickSteps)
  \/ PollTick
  \/ FetchSettle(TRUE)
  \/ ReconnectTimerFires(MaxColdSockets, MaxLiveSockets)
  \/ SockError
  \/ SockClose

SpecColdStart == InitApp /\ [][NextColdStart]_vars /\ WF_vars(FetchSettle(TRUE))

(***************************************************************************)
(* The fallback at work: the loaded page with a channel that opens and     *)
(* drops and a backend whose answers come or fail. setInterval fires its   *)
(* callback for as long as the interval is not cleared, and REQUEST_TIMEOUT*)
(* settles every request: the fairness of PollTick and of FetchSettle      *)
(***************************************************************************)
NextFallback ==
  \/ PollTick
  \/ FetchSettle(FALSE)
  \/ ReconnectTimerFires(MaxFallbackSockets, MaxLiveSockets)
  \/ SockOpen
  \/ SockError
  \/ SockClose

SpecFallback ==
  /\ InitApp
  /\ [][NextFallback]_vars
  /\ WF_vars(PollTick)
  /\ WF_vars(FetchSettle(FALSE))

(***************************************************************************)
(* Manual refresh: the loaded page on which refresh() is called, beside    *)
(* the polling and the fetches it runs anyway                              *)
(***************************************************************************)
NextRefresh ==
  \/ Tick(MaxRefreshTicks, TickSteps)
  \/ RefreshCall
  \/ RefreshSettle
  \/ PollTick
  \/ FetchSettle(FALSE)

SpecRefresh == InitApp /\ [][NextRefresh]_vars

(***************************************************************************)
(* useProfile in its component                                             *)
(***************************************************************************)
ProfResult(pt) ==
  /\ prof' = pt.prof
  /\ localStorage' = pt.ls
  /\ written' = pt.written

ProfFrame == UNCHANGED <<ticks, ret, ws, sockets, created, wsLog, hook>>

\* the component mounts: useState and useRef initialise, fetchInitialProfile starts
ProfMount ==
  \E d \in DefaultProfiles :
    /\ ~prof.mounted
    /\ ProfResult(fetchInitialProfileStart(
         Pt([profInitial EXCEPT !.mounted = TRUE, !.defaultProfile = d,
               !.currentProfile = d, !.profileConfig = getProfile(d),
               !.previousProfile = d],
            localStorage, written), now))
    /\ ev' = [op |-> "profile_mount"]
    /\ UNCHANGED <<now, backend>>
    /\ ProfFrame

\* what GET /api/profile can come to
ProfileOutcomes(ids) ==
  {Returned(Obj([profile |-> Str(id)])) : id \in ids}
  \cup {Thrown("Network error - cannot reach server")}

ProfInitSettle(ids) ==
  \E outcome \in ProfileOutcomes(ids) :
    /\ prof.mounted
    /\ prof.initPending
    /\ ProfResult(fetchInitialProfileSettle(Pt(prof, localStorage, written),
                                            wrapApiCall(outcome), now))
    /\ ev' = [op |-> "profile_init_settled", cached |-> prof.cachedProfile,
               reported |-> IF outcome.ok THEN outcome.body.fields.profile ELSE JsNull]
    /\ backend' = IF outcome.ok /\ isProfileSupported(outcome.body.fields.profile.val)
                  THEN [backend EXCEPT !.profile = outcome.body.fields.profile]
                  ELSE backend
    /\ UNCHANGED now
    /\ ProfFrame

\* setProfile(newProfile) up to its await, or to its return false
SetProfileCall(ids, bound) ==
  \E newProfile \in ids :
    /\ prof.mounted
    /\ prof.calls < bound
    /\ IF isProfileSupported(newProfile)
       THEN /\ ProfResult(setProfileStart(Pt(prof, localStorage, written), newProfile, now))
            /\ ev' = [op |-> "set_profile", newProfile |-> newProfile]
       ELSE /\ ProfResult(setProfileRejected(Pt(prof, localStorage, written), newProfile))
            /\ ev' = [op |-> "set_profile_rejected", newProfile |-> newProfile,
                      returned |-> FALSE]
    /\ UNCHANGED <<now, backend>>
    /\ ProfFrame

\* what POST /api/profile can come to: the confirmation, a rejection, an ApiError
SetProfileOutcomes(newProfile) ==
  {Returned(Obj([success |-> Bool(TRUE), data |-> Obj([profile |-> Str(newProfile)])])),
   Returned(Obj([success |-> Bool(FALSE), error |-> Str("profile locked")])),
   Thrown("Request timeout - please try again")}

SetProfileSettle ==
  \E op \in prof.pending :
    \E outcome \in SetProfileOutcomes(op.newProfile) :
      LET response == wrapApiCall(outcome) IN
      /\ ProfResult(setProfileSettle(Pt(prof, localStorage, written), op, response, now))
      /\ IF Truthy(Get(response, "success"))
         THEN /\ ev' = [op |-> "set_profile_confirmed", returned |-> TRUE]
              /\ backend' = [backend EXCEPT !.profile = Str(op.newProfile)]
         ELSE /\ ev' = [op |-> "set_profile_failed", returned |-> FALSE,
                        rollbackProfile |-> op.rollbackProfile, atCall |-> op.atCall,
                        historyAtCall |-> op.historyAtCall,
                        duringInit |-> op.duringInit]
              /\ UNCHANGED backend
      /\ UNCHANGED now
      /\ ProfFrame

\* a profile:changed message reaches the handler the mounted hook subscribed
PushProfileChanged(ids, bound) ==
  \E data \in {Obj([profile |-> Str(id)]) : id \in ids} \cup {Obj(<<>>)} :
    /\ prof.mounted
    /\ backend.pushes < bound
    /\ ProfResult(handleProfileChanged(Pt(prof, localStorage, written), data, now))
    /\ ev' = [op |-> "push_profile", data |-> data]
    /\ backend' = IF HasKey(data, "profile") /\ isProfileSupported(Get(data, "profile").val)
                  THEN [backend EXCEPT !.profile = Get(data, "profile"), !.pushes = @ + 1]
                  ELSE [backend EXCEPT !.pushes = @ + 1]
    /\ UNCHANGED now
    /\ ProfFrame

\* saveProfile(profile) of storage.js, as an earlier life of the page called it
SavedSoFar == IF ret.op = "saveProfile" THEN ret.n ELSE 0

SaveProfileCall(ids, bound) ==
  \E profile \in ids :
    /\ ~prof.mounted
    /\ SavedSoFar < bound
    /\ localStorage' = saveProfile(localStorage, profile, now)
    /\ written' = noteSaveProfile(written, profile, localStorage, now)
    /\ ret' = [op |-> "saveProfile", value |-> Bool(TRUE), n |-> SavedSoFar + 1]
    /\ ev' = [op |-> "saveProfile", profile |-> profile]
    /\ UNCHANGED <<now, ticks, ws, sockets, created, wsLog, hook, prof, backend>>

NextProfile ==
  \/ Tick(MaxProfileTicks, {1})
  \/ ProfMount
  \/ ProfInitSettle(ProfileIds)
  \/ SetProfileCall(ProfileIds, MaxCalls)
  \/ SetProfileSettle
  \/ PushProfileChanged(ProfileIds, MaxPushes)

SpecProfile == Init /\ [][NextProfile]_vars

(***************************************************************************)
(* The initial profile: useProfile mounting over the profile cache that an *)
(* earlier life of the page left                                           *)
(***************************************************************************)
(***************************************************************************)
(* The profile history: saveProfile called over and over as time passes    *)
(***************************************************************************)
HistoryProfiles == {"default", "morning"}

NextHistory ==
  \/ Tick(MaxHistoryTicks, {1})
  \/ SaveProfileCall(HistoryProfiles, MaxHistoryCalls)

SpecHistory == Init /\ [][NextHistory]_vars

(***************************************************************************)
(* useProfile under setProfile calls alone, and under profile:changed      *)
(* pushes beside one setProfile call                                       *)
(***************************************************************************)
NextProfileEdit ==
  \/ Tick(MaxEditTicks, {1})
  \/ ProfMount
  \/ ProfInitSettle(ProfileIds)
  \/ SetProfileCall(ProfileIds, MaxEditCalls)
  \/ SetProfileSettle

SpecProfileEdit == Init /\ [][NextProfileEdit]_vars

NextProfilePush ==
  \/ ProfMount
  \/ ProfInitSettle(ProfileIds)
  \/ SetProfileCall(ProfileIds, MaxPushCalls)
  \/ SetProfileSettle
  \/ PushProfileChanged(ProfileIds, MaxEditPushes)

SpecProfilePush == Init /\ [][NextProfilePush]_vars

NextResolve ==
  \/ Tick(MaxResolveTicks, TickSteps)
  \/ SaveProfileCall(ProfileIds, MaxSavedProfiles)
  \/ ProfMount
  \/ ProfInitSettle(ProfileIds)

SpecResolve == Init /\ [][NextResolve]_vars

(***************************************************************************)
(* Pushed snapshots: the loaded page receiving full and partial updates    *)
(* while time passes                                                       *)
(***************************************************************************)
\* a full snapshot as the server pushes it, with its timestamp
FullUpdates ==
  {Obj([mode |-> Str("default"), weather |-> Num(1), events |-> Num(1), tasks |-> Num(1),
        timestamp |-> Str("T0")])}

\* partial updates: with and without a timestamp of their own
MergeUpdates ==
  {Obj([partial |-> Bool(TRUE), tasks |-> Num(9)]),
   Obj([partial |-> Bool(TRUE), tasks |-> Num(9), timestamp |-> Str("T1")]),
   Obj([partial |-> Bool(TRUE), weather |-> Num(8), timestamp |-> JsNull])}

\* time passes and nothing else happens
Elapse(bound) ==
  /\ ticks < bound
  /\ now' = now + 1
  /\ ticks' = ticks + 1
  /\ UNCHANGED <<localStorage, written, ret, ws, sockets, created, wsLog, hook, prof,
                 backend, ev>>

NextMerge ==
  \/ Elapse(MaxMergeTicks)
  \/ FetchSettle(FALSE)
  \/ SockOpen
  \/ SockPushUpdate(FullUpdates \cup MergeUpdates)

SpecMerge == InitApp /\ [][NextMerge]_vars

(***************************************************************************)
(* The gateway on its own: requests against hosts that come and go         *)
(***************************************************************************)
\* hosts[i] is what the i-th candidate base URL's host does at the moment
InitGateway ==
  /\ now = StartTime
  /\ ticks = 0
  /\ localStorage = [k \in StorageKeys |-> IF k = ForeignKey THEN ForeignItem ELSE NoItem]
  /\ written = [k \in CACHE_KEYS |-> NoWrite]
  /\ ret = [op |-> "none"]
  /\ ws = wsConstructed
  /\ sockets = {}
  /\ created = 0
  /\ wsLog = NoLog
  /\ hook = hookInitial
  /\ prof = profInitial
  /\ \E raw \in RawApiUrls, hostname \in WindowHostnames, hosts \in [HostIds -> HostBehaviours] :
       backend = [snapshot |-> JsNull, profile |-> JsNull, pushes |-> 0,
                  env |-> [rawApiUrl |-> raw, hostname |-> hostname], hosts |-> hosts]
  /\ ev = [op |-> "init"]

GatewayRequest(method) ==
  LET r == apiClientRequest(backend.env, backend.hosts)
  IN /\ ret' = [op |-> method, hosts |-> backend.hosts, calls |-> r.calls,
                outcome |-> r.outcome]
     /\ ev' = [op |-> "gateway_request"]
     /\ UNCHANGED <<now, ticks, localStorage, written, ws, sockets, created, wsLog,
                    hook, prof, backend>>

GatewayGet == GatewayRequest("get")
GatewayPost == GatewayRequest("post")

\* a host goes down, comes back or starts answering with errors
NetworkChanges ==
  \E i \in HostIds, b \in HostBehaviours :
    /\ backend.hosts[i] # b
    /\ backend' = [backend EXCEPT !.hosts[i] = b]
    /\ ev' = [op |-> "network"]
    /\ UNCHANGED <<now, ticks, localStorage, written, ret, ws, sockets, created, wsLog,
                   hook, prof>>

NextGateway ==
  \/ GatewayGet
  \/ GatewayPost
  \/ NetworkChanges

SpecGateway == InitGateway /\ [][NextGateway]_vars

(***************************************************************************)
(* Claims about the cache (SpecStorage)                                    *)
(***************************************************************************)
WrittenForever(key) == written[key] # NoWrite /\ written[key].ttl = Infinity
WrittenFinite(key) == written[key] # NoWrite /\ written[key].ttl.kind = "number"
Age(key) == now - written[key].timestamp

\* C4: an entry written with ttl Infinity stays in storage, and every getFromCache of
\* its key returns it, whatever time has passed, until clearCache or clearAllCache
\* removes it
C4_NeverExpiringEntryIsKept ==
  \A key \in CACHE_KEYS :
    WrittenForever(key) =>
      /\ localStorage[getNamespacedKey(key)] # NoItem
      /\ JSONParse(localStorage[getNamespacedKey(key)]).data = written[key].data
      /\ (ev.op = "getFromCache" /\ ret.key = key => ret.value = written[key].data)

\* C5: a getFromCache of an entry written with a finite ttl returns the value and
\* leaves storage as it was while the entry's age is at most ttl, and returns null
\* and leaves storage without the entry once the age exceeds ttl
C5_FiniteTtlRead ==
  [][\A key \in CACHE_KEYS :
       (ev'.op = "getFromCache" /\ ret'.key = key /\ WrittenFinite(key)) =>
         IF Age(key) <= written[key].ttl.val
         THEN ret'.value = written[key].data /\ localStorage' = localStorage
         ELSE /\ ret'.value = JsNull
              /\ localStorage' = removeItem(localStorage, getNamespacedKey(key))]_vars

\* a read found an entry expired that an earlier read, at age ttl, had returned
C5_Witness ==
  /\ ev.op = "getFromCache" /\ ret.key = DASHBOARD_DATA
  /\ WrittenFinite(DASHBOARD_DATA)
  /\ written[DASHBOARD_DATA].ttl = Num(CACHE_TTL_DASHBOARD)
  /\ Age(DASHBOARD_DATA) = CACHE_TTL_DASHBOARD + 1
  /\ ret.value = JsNull
  /\ localStorage[getNamespacedKey(DASHBOARD_DATA)] = NoItem

(***************************************************************************)
(* Claims about the polling fallback (SpecPolling)                         *)
(***************************************************************************)
\* C1: while useDashboardData is mounted, the polling timer is set if and only if the
\* channel state is not connected, and exactly one interval runs when it is set, none
\* when it is not
C1_PollingIffNotConnected ==
  hook.mounted =>
    /\ hook.pollingTimer <=> ws.state # CONNECTED
    /\ hook.intervals = IF ws.state = CONNECTED THEN 0 ELSE 1

\* a second socket opened under the mounted hook: the channel is connected again and
\* the polling the hook ran in between is stopped
C1_Witness ==
  /\ hook.mounted
  /\ ev.op = "sock_open"
  /\ created >= 2
  /\ ws.state = CONNECTED
  /\ ~hook.pollingTimer
  /\ hook.intervals = 0

(***************************************************************************)
(* Claims about the push channel (SpecChannel)                             *)
(***************************************************************************)
\* C2: while disconnect() has not been called since the last connect(), every close
\* of a socket leaves a reconnect attempt scheduled, however many attempts have failed
C2_CloseSchedulesReconnect ==
  (ev.op = "sock_close" /\ ws.shouldReconnect) => ws.reconnectTimer

(***************************************************************************)
(* Claims about the synchronizer (Spec)                                    *)
(***************************************************************************)
\* C3: at most one dashboard-data fetch of useDashboardData is in flight at any time
C3_AtMostOneFetchInFlight == InFlight(hook) <= 1

\* C6: when a fetch fails the error is set, and once a last-known-good snapshot has
\* been saved (an earlier fetch succeeded, before a reload or not) a snapshot is
\* exposed with it
C6_FailedFetchFallsBack ==
  ev.op = "fetch_failed" =>
    /\ hook.error # JsNull
    /\ (written[LAST_VALID_DATA] # NoWrite => hook.data \in Snapshots)

\* C8: when a fetch succeeds with payload P or a full dashboard:update push carries P,
\* the exposed snapshot is P, the error is cleared, P is cached under dashboard_data
\* with a 60000 ms ttl and under last_valid_data with no expiry, and after the fetch
\* loading is false
C8_SnapshotAccepted ==
  ev.op \in {"fetch_ok", "push_full"} =>
    LET P == backend.snapshot
        c == JSONParse(localStorage[getNamespacedKey(DASHBOARD_DATA)])
        l == JSONParse(localStorage[getNamespacedKey(LAST_VALID_DATA)])
    IN /\ hook.data = P
       /\ hook.error = JsNull
       /\ (ev.op = "fetch_ok" => ~hook.loading)
       /\ c.data = P /\ c.timestamp = now /\ c.ttl = Num(CACHE_TTL_DASHBOARD)
       /\ l.data = P
       /\ \A t \in {now, now + 1, now + CACHE_TTL_DASHBOARD + 1} : ~isExpired(l, t)

(***************************************************************************)
(* Claims about the cold start (SpecColdStart)                             *)
(***************************************************************************)
\* C7: on a cold start with an empty cache and an unreachable backend the hook comes
\* to, and stays in, the state with no data, the error set and loading false
C7_ColdStartSettles ==
  <>[](hook.data = JsNull /\ hook.error # JsNull /\ ~hook.loading)

\* a fetch has failed over the empty cache while the polling goes on
C7_Witness ==
  /\ ev.op = "fetch_failed"
  /\ hook.data = JsNull
  /\ hook.error # JsNull
  /\ ~hook.loading
  /\ hook.pollingTimer
  /\ localStorage[getNamespacedKey(DASHBOARD_DATA)] = NoItem

(***************************************************************************)
(* Claims about the profile (SpecProfile)                                  *)
(***************************************************************************)
\* C9: a setProfile(B) called with current profile A whose confirmation fails ends
\* with currentProfile = A, the error set, the call resolved to false, and the cached
\* current profile readable as A, at that instant and later
C9_FailedSetProfileRollsBack ==
  ev.op = "set_profile_failed" =>
    /\ prof.currentProfile = ev.atCall
    /\ prof.error # JsNull
    /\ ev.returned = FALSE
    /\ \A t \in {now, now + 1} :
         getStoredProfile(localStorage, t).value = Str(ev.atCall)

\* C10: once every operation has settled the visible currentProfile is the profile
\* the backend most recently confirmed or pushed: a failed setProfile, called after
\* the initial fetch, that settles last while the visible profile is the backend's
\* latest, leaves it so
C10_RollbackKeepsLaterProfile ==
  [][(/\ ev'.op = "set_profile_failed"
      /\ prof'.pending = {}
      /\ ~ev'.duringInit
      /\ backend.profile # JsNull
      /\ Str(prof.currentProfile) = backend.profile)
     => Str(prof'.currentProfile) = backend'.profile]_vars

(***************************************************************************)
(* Claims about the initial profile (SpecResolve)                          *)
(***************************************************************************)
\* the first supported id in the order cached, backend-reported, default
Supported(v) == v.kind = "string" /\ isProfileSupported(v.val)
FirstValid(cached, reported, default) ==
  IF Supported(cached) THEN cached.val
  ELSE IF Supported(reported) THEN reported.val
  ELSE default

\* C11: when fetchInitialProfile has settled the current profile is the cached
\* profile if that is supported, else the backend-reported one if that is supported,
\* else the default
C11_FirstValidSourceWins ==
  ev.op = "profile_init_settled" =>
    prof.currentProfile = FirstValid(ev.cached, ev.reported, prof.defaultProfile)

(***************************************************************************)
(* More claims about the push channel (SpecChannel)                        *)
(***************************************************************************)
\* the sockets that are open or opening
LiveSockets == {s \in sockets : s.status \in {"connecting", "open"}}

\* C12: at every moment at most one socket the client created is open or opening
C12_AtMostOneLiveSocket == Cardinality(LiveSockets) <= 1

\* C13: from disconnect() until the next connect() (shouldReconnect is false exactly
\* then) the state is disconnected, neither timer is pending and the client holds no
\* socket, whatever events the closed socket delivers
C13_DisconnectedUntilConnect ==
  ~ws.shouldReconnect =>
    /\ ws.state = DISCONNECTED
    /\ ~ws.reconnectTimer
    /\ ~ws.heartbeatTimer
    /\ ws.sock = 0

ConnectionLevel(behaviour) == behaviour \in {"timeout", "refused"}

\* the first candidate that does not fail at connection level, or the last one
FirstAnswering(hosts, n) ==
  IF \E i \in 1..n : ~ConnectionLevel(hosts[i])
  THEN CHOOSE i \in 1..n : /\ ~ConnectionLevel(hosts[i])
                           /\ \A j \in 1..(i - 1) : ConnectionLevel(hosts[j])
  ELSE n

\* C15: a get or post calls the candidate base hosts in order up to the first one
\* that does not fail at connection level, calls no host after it, and its result is
\* that host's response (its body, or its error status)
C15_StopsAtFirstAnsweringHost ==
  ret.op \in {"get", "post"} =>
    LET urls == API_BASE_URLS(backend.env)
        k == FirstAnswering(ret.hosts, Len(urls))
    IN /\ ret.calls = SubSeq(urls, 1, k)
       /\ ret.outcome = requestOutcome(ret.hosts[k], k)

(***************************************************************************)
(* Claims about pushed snapshots (SpecMerge)                               *)
(***************************************************************************)
\* the field names a partial push can touch: those of the snapshot held before it,
\* of the update and of the snapshot held after it
MergeFields(before, update, after) ==
  (DOMAIN FieldsOf(before)) \cup (DOMAIN FieldsOf(update)) \cup (DOMAIN FieldsOf(after))

\* field f of the snapshot is as it was before the push
Kept(before, after, f) ==
  /\ HasKey(after, f) = HasKey(before, f)
  /\ Get(after, f) = Get(before, f)

\* C16 as stated: after a partial push onto a held snapshot every field the update
\* names has the update's value and every field it does not name, the timestamp
\* included, is as it was
C16_UnnamedFieldsKept ==
  (ev.op = "push_partial" /\ Truthy(ev.before)) =>
    \A f \in MergeFields(ev.before, ev.update, hook.data) :
      IF HasKey(ev.update, f)
      THEN Get(hook.data, f) = Get(ev.update, f)
      ELSE Kept(ev.before, hook.data, f)

\* C16: after a partial push onto a held snapshot every field other than the
\* timestamp has the update's value when the update names it and is as it was when
\* the update does not; the timestamp is the update's when that is set, and the time
\* the push arrived at otherwise
C16_PartialOverlaysSnapshot ==
  (ev.op = "push_partial" /\ Truthy(ev.before)) =>
    /\ \A f \in MergeFields(ev.before, ev.update, hook.data) \ {"timestamp"} :
         IF HasKey(ev.update, f)
         THEN Get(hook.data, f) = Get(ev.update, f)
         ELSE Kept(ev.before, hook.data, f)
    /\ Get(hook.data, "timestamp") =
         IF Truthy(Get(ev.update, "timestamp")) THEN Get(ev.update, "timestamp")
         ELSE toISOString(ev.at)

\* a partial carrying only tasks has been merged onto a full snapshot: tasks are
\* replaced, weather and events are the snapshot's
C16_Witness ==
  /\ ev.op = "push_partial"
  /\ ev.before \in FullUpdates
  /\ DOMAIN ev.update.fields = {"partial", "tasks"}
  /\ Get(hook.data, "tasks") = Num(9)
  /\ Get(hook.data, "weather") = Num(1)
  /\ Get(hook.data, "events") = Num(1)

\* the snapshot with its timestamp left out
WithoutTimestamp(snapshot) ==
  [f \in (DOMAIN FieldsOf(snapshot)) \ {"timestamp"} |-> snapshot.fields[f]]

\* C17 as stated: a partial push that repeats the one before it leaves the snapshot
\* exactly as the first application made it
C17_MergeIdempotent ==
  (ev.op = "push_partial" /\ ev.again) => hook.data = ev.before

\* C17: a partial push that repeats the one before it leaves every field other than
\* the timestamp as the first application made it, and the timestamp too when the
\* update carries one
C17_MergeIdempotentButTimestamp ==
  (ev.op = "push_partial" /\ ev.again) =>
    /\ WithoutTimestamp(hook.data) = WithoutTimestamp(ev.before)
    /\ Truthy(Get(ev.update, "timestamp")) => hook.data = ev.before

\* the same partial without a timestamp was merged twice, at different times
C17_Witness ==
  /\ ev.op = "push_partial"
  /\ ev.again
  /\ ~HasKey(ev.update, "timestamp")
  /\ Get(ev.before, "timestamp") # Get(hook.data, "timestamp")
  /\ Get(hook.data, "tasks") = Num(9)

(***************************************************************************)
(* Claims about the cache-first step (Spec)                                *)
(***************************************************************************)
\* the page has just loaded or the profile has just changed, and the cache-first
\* step found a snapshot that had not expired (it is rewritten on being exposed)
CacheFirstHit ==
  /\ ev.op \in {"load", "profile_change"}
  /\ Truthy(getFromCache(localStorage, DASHBOARD_DATA, now).value)

\* C18: when the cache-first step of a startup or profile change finds a snapshot,
\* the snapshot is exposed and loading is still true, the fetch being in flight
C18_LoadingUntilFetchSettles ==
  CacheFirstHit =>
    /\ hook.data = getFromCache(localStorage, DASHBOARD_DATA, now).value
    /\ hook.inflight[hook.profileRef] > 0
    /\ hook.loading

\* C19: the snapshot the cache-first step exposes on a startup or a change to
\* profile p is one of p
C19_CachedSnapshotIsOfProfile ==
  CacheFirstHit => Get(hook.data, "mode") = Str(hook.profileRef)

(***************************************************************************)
(* Claims about the fallback at work (SpecFallback)                        *)
(***************************************************************************)
\* C20: whenever the channel of the mounted hook is not connected, the polling
\* interval comes to fire and issue a fetch unless the channel connects first; every
\* firing that finds the channel not connected issues one more request, whatever the
\* earlier fetches came to, and a firing that finds it connected changes nothing
C20_PollingKeepsFetching ==
  /\ (hook.mounted /\ ws.state # CONNECTED) ~> (ev.op = "poll_fetch" \/ ws.state = CONNECTED)
  /\ [][/\ ev'.op = "poll_fetch" =>
             /\ ws.state # CONNECTED
             /\ hook'.inflight[hook.profileRef] = hook.inflight[hook.profileRef] + 1
        /\ ev'.op = "poll_skip" =>
             /\ ws.state = CONNECTED \/ ~hook.mounted
             /\ hook' = hook
        /\ (hook.mounted /\ ws.state = CONNECTED) => ev'.op # "poll_fetch"]_vars

\* the channel had been open and is down, the last fetch failed, and the interval
\* has fired and issued the next one
C20_Witness ==
  /\ ev.op = "poll_fetch"
  /\ ws.state \in {DISCONNECTED, ERROR}
  /\ ws.lastPongTime # JsNull
  /\ hook.error # JsNull
  /\ InFlight(hook) > 0

(***************************************************************************)
(* Claims about the resync on connect (SpecPolling)                        *)
(***************************************************************************)
\* C21: every step that takes the channel of the mounted hook to connected leaves no
\* polling interval running and issues exactly one more request, for the active
\* profile
C21_ConnectedStopsPollingAndFetchesOnce ==
  [][(hook.mounted /\ ws.state # CONNECTED /\ ws'.state = CONNECTED) =>
       /\ ~hook'.pollingTimer
       /\ hook'.intervals = 0
       /\ hook'.profileRef = hook.profileRef
       /\ hook'.inflight =
            [hook.inflight EXCEPT ![hook.profileRef] = @ + 1]]_vars

\* the socket opened while the initial fetch was still awaited: the polling is
\* stopped and a second request is in flight
C21_Witness ==
  /\ ev.op = "sock_open"
  /\ hook.mounted
  /\ ws.state = CONNECTED
  /\ ~hook.pollingTimer
  /\ hook.intervals = 0
  /\ hook.inflight[hook.profileRef] = 2

(***************************************************************************)
(* Claims about the manual refresh (SpecRefresh)                           *)
(***************************************************************************)
\* C22: refresh() removes the cached dashboard_data entry and sets loading before
\* the regenerate call is awaited; when that call settles, whichever way, exactly one
\* request is issued and nothing else of the hook or of the storage changes (no
\* cached snapshot is exposed); every request that settles leaves loading false
C22_RefreshRefetchesOnce ==
  [][/\ ev'.op = "refresh" =>
          /\ localStorage'[getNamespacedKey(DASHBOARD_DATA)] = NoItem
          /\ hook' = [hook EXCEPT !.loading = TRUE, !.error = JsNull, !.refreshing = @ + 1]
     /\ ev'.op = "refresh_settled" =>
          /\ hook' = [hook EXCEPT !.refreshing = @ - 1, !.inflight[hook.profileRef] = @ + 1]
          /\ localStorage' = localStorage
     /\ ev'.op \in {"fetch_ok", "fetch_failed"} => ~hook'.loading]_vars

\* the regenerate call failed while a snapshot was held: the request is in flight,
\* loading is still set and the cache entry is gone
C22_Witness ==
  /\ ev.op = "refresh_settled"
  /\ ~ev.regenerated
  /\ hook.data # JsNull
  /\ hook.loading
  /\ hook.inflight[hook.profileRef] = 1
  /\ hook.refreshing = 0
  /\ localStorage[getNamespacedKey(DASHBOARD_DATA)] = NoItem
  /\ localStorage[getNamespacedKey(LAST_VALID_DATA)] # NoItem

(***************************************************************************)
(* Claims about setProfile's validation and the profile push               *)
(* (SpecProfileEdit, SpecProfilePush, SpecProfile)                         *)
(***************************************************************************)
\* C23: a setProfile call with an id that is not a known profile changes nothing but
\* the error: the current profile, the requests in flight, the storage (cached
\* profile and history) and the backend are as before, and the call yields false
C23_UnknownProfileRejected ==
  [][(ev'.op \in {"set_profile", "set_profile_rejected"}
        /\ ev'.newProfile \notin KnownProfiles) =>
       /\ ev'.op = "set_profile_rejected"
       /\ ev'.returned = FALSE
       /\ prof'.error # JsNull
       /\ prof' = [prof EXCEPT !.error = prof'.error]
       /\ localStorage' = localStorage
       /\ backend' = backend]_vars

\* setProfile('kiosk') was rejected on a hook that had moved off its default profile
C23_Witness ==
  /\ ev.op = "set_profile_rejected"
  /\ ev.newProfile = "kiosk"
  /\ prof.error = Str(<<"Profile '", "kiosk", "' is not supported on this display">>)
  /\ prof.currentProfile # prof.defaultProfile
  /\ getStoredProfile(localStorage, now).value = Str(prof.currentProfile)

PushedProfile == Get(ev'.data, "profile")

\* C24: a profile:changed push naming a known profile other than the current one
\* makes it current and stores it as the cached profile, sending no request; any
\* other push leaves the hook and the storage as they were
C24_PushAdoptsValidProfile ==
  [][ev'.op = "push_profile" =>
       IF /\ Truthy(PushedProfile)
          /\ PushedProfile.val \in KnownProfiles
          /\ PushedProfile.val # prof.currentProfile
       THEN /\ prof'.currentProfile = PushedProfile.val
            /\ getStoredProfile(localStorage', now').value = PushedProfile
            /\ prof'.pending = prof.pending
            /\ prof'.error = prof.error
       ELSE /\ prof' = prof
            /\ localStorage' = localStorage]_vars

\* a push has moved the hook to 'guest', which is now the cached profile
C24_Witness ==
  /\ ev.op = "push_profile"
  /\ ev.data = Obj([profile |-> Str("guest")])
  /\ prof.currentProfile = "guest"
  /\ prof.pending = {}
  /\ ~prof.initPending
  /\ getStoredProfile(localStorage, now).value = Str("guest")

\* C25: when a setProfile call fails, the stored profile history reads as it did
\* when the call was made
C25_FailedSetProfileKeepsHistory ==
  ev.op = "set_profile_failed" =>
    getProfileHistory(localStorage, now).value = ev.historyAtCall

(***************************************************************************)
(* Claims about the profile history (SpecHistory)                          *)
(***************************************************************************)
\* the history as it is stored, whatever its age
StoredHistory(ls) ==
  LET item == ls[getNamespacedKey(PROFILE_HISTORY)]
  IN IF item = NoItem \/ Unparsable(item) THEN <<>> ELSE JSONParse(item).data.items

\* C26: every saveProfile call stores the new entry followed by the first 9 entries
\* of the history stored before it, so the history has at most 10 entries, the most
\* recent first, and what the history reads as is what is stored
C26_HistoryCappedAndKept ==
  [][ev'.op = "saveProfile" =>
       /\ StoredHistory(localStorage') =
            slice(<<[profile |-> ev'.profile, timestamp |-> now]>> \o StoredHistory(localStorage),
                  HistoryCap)
       /\ Len(StoredHistory(localStorage')) <= HistoryCap
       /\ getProfileHistory(localStorage', now').value = StoredHistory(localStorage')]_vars

(***************************************************************************)
(* Claims about the heartbeat (SpecChannel)                                *)
(***************************************************************************)
\* the last pong, or the connect, is more than two heartbeat intervals old
PongOverdue == now - ws.lastPongTime.val > heartbeatInterval * 2

\* the socket the client holds is open, or already closing
HeldSocketIs(ss, statuses) == \E s \in ss : s.id = ws.sock /\ s.status \in statuses

\* C27: at a heartbeat tick of the connected client a ping leaves on its socket
\* unless the last pong is overdue, in which case the socket is closed and no ping
\* leaves; when the socket so closed reports its close the state becomes
\* disconnected and a reconnect is scheduled
C27_HeartbeatPingsOrCloses ==
  [][/\ (ev'.op = "heartbeat" /\ ws.state = CONNECTED) =>
          IF PongOverdue
          THEN /\ wsLog'.what = "stale_close"
               /\ HeldSocketIs(sockets', {"closing"})
          ELSE /\ wsLog'.what = "ping"
               /\ wsLog'.sent
     /\ (ev'.op = "sock_close" /\ wsLog.what = "stale_close") =>
          /\ ws'.state = DISCONNECTED
          /\ ws'.reconnectTimer]_vars

(***************************************************************************)
(* Claims about connect() on a live client (SpecBackoff)                   *)
(***************************************************************************)
\* C28: connect() called while the state is connected or connecting returns the
\* settled promise of its first lines: no socket is constructed, the client (its
\* state, socket, timers, attempt counter and delay) and the sockets are as before,
\* and no state:change is emitted, so no subscriber runs
C28_ConnectWhileLiveIsNoOp ==
  [][(ev'.op = "connect" /\ ws.state \in {CONNECTED, CONNECTING}) =>
       /\ ws' = ws
       /\ sockets' = sockets
       /\ created' = created
       /\ wsLog' = NoLog
       /\ connect(ws, sockets, created + 1).chg = <<>>
       /\ hook' = hook]_vars

\* connect() has returned early on a client that is reconnecting
C28_Witness ==
  /\ ev.op = "connect"
  /\ wsLog = NoLog
  /\ ws.state = CONNECTING
  /\ ws.reconnectAttempts > 0
  /\ sockets # {}

(***************************************************************************)
(* Subscribers of the client: callbacks that may throw, and the messages   *)
(* a socket delivers, well-formed or not                                   *)
(***************************************************************************)
Callbacks == {"render", "log", "notify"}
MaxSubscriptions == 3

Subscribed(w, event) == {w.eventHandlers[event][i] : i \in DOMAIN w.eventHandlers[event]}

subscribe(w, event, callback) ==
  IF callback \in Subscribed(w, event) THEN w
  ELSE [w EXCEPT !.eventHandlers[event] = Append(@, callback)]

unsubscribe(w, event, callback) ==
  [w EXCEPT !.eventHandlers[event] = SelectSeq(@, LAMBDA c : c # callback)]

\* a forEach that lets the exception of a callback leave the loop
RECURSIVE forEachUncaught(_, _)
forEachUncaught(callbacks, throwing) ==
  IF callbacks = <<>> THEN [called |-> <<>>, thrown |-> FALSE]
  ELSE IF Head(callbacks) \in throwing
       THEN [called |-> <<Head(callbacks)>>, thrown |-> TRUE]
       ELSE LET rest == forEachUncaught(Tail(callbacks), throwing)
            IN [called |-> <<Head(callbacks)>> \o rest.called, thrown |-> rest.thrown]

\* the forEach of _emit over the callbacks of one event, those of throwing throw:
\* each callback runs inside its own try, whose catch only logs
RECURSIVE forEachCallback(_, _)
forEachCallback(callbacks, throwing) ==
  IF callbacks = <<>> THEN [called |-> <<>>, thrown |-> FALSE]
  ELSE LET rest == forEachCallback(Tail(callbacks), throwing)
       IN [called |-> <<Head(callbacks)>> \o rest.called, thrown |-> rest.thrown]

\* _emit(event, data): the callbacks called, in order, and whether an exception
\* leaves _emit
emit(w, event, data, throwing) ==
  LET e == IF event.kind = "string" /\ event.val \in DOMAIN w.eventHandlers
           THEN forEachCallback(w.eventHandlers[event.val], throwing)
           ELSE [called |-> <<>>, thrown |-> FALSE]
  IN [event |-> event, data |-> data, called |-> e.called, thrown |-> e.thrown]

\* the text of a frame: the JSON text of a value, or text that is not JSON
JsonText(value) == [kind |-> "json", value |-> value]
Garbage         == [kind |-> "garbage"]

\* JSON.parse(event.data)
parseMessage(raw) ==
  IF raw.kind = "json" THEN [threw |-> FALSE, value |-> raw.value] ELSE [threw |-> TRUE]

parse_error(raw) == Obj([type |-> Str("parse_error"), raw |-> raw])

\* _handleMessage: the client after it, the emissions made, and whether an
\* exception leaves the listener. Reading message.event of null throws inside the
\* try, like JSON.parse of text that is not JSON
handleMessage(w, raw, t, throwing) ==
  LET parsed == parseMessage(raw)
      caught(before) ==
        LET e == emit(w, Str("error"), parse_error(raw), throwing)
        IN [ws |-> w, emissions |-> before \o <<e>>, thrown |-> e.thrown]
  IN IF parsed.threw \/ parsed.value = JsNull THEN caught(<<>>)
     ELSE IF Get(parsed.value, "event") = Str("pong")
          THEN [ws |-> [w EXCEPT !.lastPongTime = Num(t)], emissions |-> <<>>,
                thrown |-> FALSE]
          ELSE LET e == emit(w, Get(parsed.value, "event"), Get(parsed.value, "data"),
                             throwing)
               IN IF e.thrown THEN caught(<<e>>)
                  ELSE [ws |-> w, emissions |-> <<e>>, thrown |-> FALSE]

\* _handleOpen before subscribers: _setState emits state:change, then the counters
\* are reset and the heartbeat started, then connection is emitted. An exception
\* leaving an _emit would end the listener there
handleOpenEmitting(w, ss, t, throwing) ==
  LET changes == IF w.state # CONNECTED
                 THEN <<emit(w, Str("state:change"), Str(CONNECTED), throwing)>>
                 ELSE <<>>
  IN IF changes # <<>> /\ changes[1].thrown
     THEN [ws |-> setStateTo(w, CONNECTED), emissions |-> changes, thrown |-> TRUE]
     ELSE LET e == emit(w, Str("connection"), Undefined, throwing)
          IN [ws |-> handleOpen(w, ss, t).ws, emissions |-> changes \o <<e>>,
              thrown |-> e.thrown]

\* the frames a server, or anything between, may deliver
IncomingMessages ==
  { JsonText(Obj([event |-> Str("pong")])),
    JsonText(Obj([event |-> Str("dashboard:update"), data |-> Obj(<<>>)])),
    JsonText(Obj([event |-> Str("error"), data |-> Obj(<<>>)])),
    JsonText(Obj([data |-> Obj(<<>>)])),
    JsonText(JsNull),
    Garbage }

RECURSIVE SumOver(_, _)
SumOver(f, S) ==
  IF S = {} THEN 0 ELSE LET x == CHOOSE y \in S : TRUE IN f[x] + SumOver(f, S \ {x})

Subscriptions(w) == SumOver([e \in WS_EVENTS |-> Len(w.eventHandlers[e])], WS_EVENTS)

\* the callbacks subscribed to some event: only their exceptions can matter
AnySubscribed(w) == UNION {Subscribed(w, e) : e \in WS_EVENTS}

\* the page has called connect(): one socket is opening
InitEmit ==
  LET r == connect(wsConstructed, {}, 1) IN
  /\ now = StartTime
  /\ ticks = 0
  /\ localStorage = [k \in StorageKeys |-> IF k = ForeignKey THEN ForeignItem ELSE NoItem]
  /\ written = [k \in CACHE_KEYS |-> NoWrite]
  /\ ret = [op |-> "none"]
  /\ ws = r.ws
  /\ sockets = r.sockets
  /\ created = 1
  /\ wsLog = r.log
  /\ hook = hookInitial
  /\ prof = profInitial
  /\ backend = [snapshot |-> JsNull, profile |-> JsNull, pushes |-> 0]
  /\ ev = [op |-> "connect"]

SubscribeCall ==
  \E event \in WS_EVENTS, callback \in Callbacks :
    /\ callback \notin Subscribed(ws, event)
    /\ Subscriptions(ws) < MaxSubscriptions
    /\ ws' = subscribe(ws, event, callback)
    /\ ev' = [op |-> "subscribe"]
    /\ UNCHANGED <<now, ticks, localStorage, written, ret, sockets, created, wsLog,
                   hook, prof, backend>>

UnsubscribeCall ==
  \E event \in WS_EVENTS, callback \in Callbacks :
    /\ callback \in Subscribed(ws, event)
    /\ ws' = unsubscribe(ws, event, callback)
    /\ ev' = [op |-> "unsubscribe"]
    /\ UNCHANGED <<now, ticks, localStorage, written, ret, sockets, created, wsLog,
                   hook, prof, backend>>

\* the open event of the socket, with the callbacks of throwing throwing
SockOpenEmitting ==
  \E s \in sockets, throwing \in SUBSET AnySubscribed(ws) :
    LET r == handleOpenEmitting(ws, withStatus(sockets, s, "open"), now, throwing) IN
    /\ s.status = "connecting"
    /\ ws' = r.ws
    /\ sockets' = withStatus(sockets, s, "open")
    /\ wsLog' = [what |-> "open"]
    /\ ev' = [op |-> "sock_open", throwing |-> throwing, emissions |-> r.emissions,
              thrown |-> r.thrown]
    /\ UNCHANGED <<now, ticks, localStorage, written, ret, created, hook, prof, backend>>

\* a message event of the open socket
SockMessage ==
  \E s \in sockets, raw \in IncomingMessages, throwing \in SUBSET AnySubscribed(ws) :
    LET r == handleMessage(ws, raw, now, throwing) IN
    /\ s.status = "open"
    /\ ws' = r.ws
    /\ wsLog' = [what |-> "message"]
    /\ ev' = [op |-> "sock_message", raw |-> raw, throwing |-> throwing,
              emissions |-> r.emissions, thrown |-> r.thrown]
    /\ UNCHANGED <<now, ticks, localStorage, written, ret, sockets, created, hook,
                   prof, backend>>

NextEmit ==
  \/ SubscribeCall
  \/ UnsubscribeCall
  \/ SockOpenEmitting
  \/ SockMessage

SpecEmit == InitEmit /\ [][NextEmit]_vars

(***************************************************************************)
(* Claims about subscribers and incoming messages (SpecEmit)               *)
(***************************************************************************)
\* how often callback c occurs in the sequence called
TimesCalled(called, c) == Cardinality({i \in DOMAIN called : called[i] = c})

\* every callback subscribed to the event of emission e was called once, no other
CalledOnceEach(w, e) ==
  \A c \in Callbacks :
    TimesCalled(e.called, c) =
      IF e.event.kind = "string" /\ e.event.val \in WS_EVENTS /\ c \in Subscribed(w, e.event.val)
      THEN 1 ELSE 0

\* C29: whichever callbacks throw, each emission of an open or message event calls
\* every callback subscribed to its event exactly once and no exception leaves the
\* listener; the client and its sockets end as they do when no callback throws; a
\* frame that is not JSON yields exactly one emission, error with type parse_error
C29_ThrowingHandlerIsIsolated ==
  [][ev'.op \in {"sock_open", "sock_message"} =>
       /\ ~ev'.thrown
       /\ \A i \in DOMAIN ev'.emissions : CalledOnceEach(ws, ev'.emissions[i])
       /\ ev'.op = "sock_open" =>
            /\ ws' = handleOpen(ws, sockets', now).ws
            /\ Len(ev'.emissions) = 2
       /\ ev'.op = "sock_message" =>
            /\ ws' = handleMessage(ws, ev'.raw, now, {}).ws
            /\ sockets' = sockets
            /\ parseMessage(ev'.raw).threw =>
                 /\ Len(ev'.emissions) = 1
                 /\ ev'.emissions[1].event = Str("error")
                 /\ Get(ev'.emissions[1].data, "type") = Str("parse_error")]_vars

\* a message was emitted to three callbacks of which the first threw, and the
\* other two were called
C29_Witness ==
  /\ ev.op = "sock_message"
  /\ Len(ev.emissions) = 1
  /\ ev.emissions[1].event = Str("dashboard:update")
  /\ Len(ev.emissions[1].called) = 3
  /\ ev.throwing = {ev.emissions[1].called[1]}
  /\ ws.eventHandlers["dashboard:update"] = ev.emissions[1].called

(***************************************************************************)
(* A storage that fails: localStorage that throws on access, or that has   *)
(* room for so many units only                                             *)
(***************************************************************************)
MaxQuota == 6
MaxQuotaTicks == 1

\* units of room taken by the probe item of isLocalStorageAvailable, and by a
\* stringified cache entry
ProbeSize == 1
EntrySize == 2

\* data JSON.stringify throws on
Cyclic == [kind |-> "cyclic"]

SizeOf(item) ==
  IF item = NoItem THEN 0 ELSE IF item.kind = "json" THEN EntrySize ELSE ProbeSize

Used(ls) == SumOver([k \in DOMAIN ls |-> SizeOf(ls[k])], DOMAIN ls)

\* would the text item fit under key k, replacing what k holds
Fits(env, ls, k, item) == Used(ls) - SizeOf(ls[k]) + SizeOf(item) <= env.quota

\* localStorage.setItem(k, item): the error it throws, if any, and the storage
setItemIn(env, ls, k, item) ==
  IF ~env.accessible THEN [error |-> "SecurityError", ls |-> ls]
  ELSE IF ~Fits(env, ls, k, item) THEN [error |-> "QuotaExceededError", ls |-> ls]
  ELSE [error |-> "none", ls |-> setItem(ls, k, item)]

\* setItem and removeItem of the probe item inside a try
isLocalStorageAvailable(env, ls) == env.accessible /\ Used(ls) + ProbeSize <= env.quota

cleanupExpiredCacheIn(env, ls, t) ==
  IF ~isLocalStorageAvailable(env, ls) THEN ls ELSE cleanupExpiredCache(ls, t)

\* lines 80-86 and 99-106: build the entry, stringify it and set the item
writeEntry(env, ls, key, data, ttl, t) ==
  IF data = Cyclic THEN [error |-> "TypeError", ls |-> ls]
  ELSE setItemIn(env, ls, getNamespacedKey(key),
                 JSONStringify([data |-> data, timestamp |-> t, ttl |-> ttl]))

\* saveToCache over a storage that may fail: the value returned, the storage
\* after it and how many times the entry was written. Every statement that can
\* throw sits in a try whose catch returns
saveToCacheIn(env, ls, key, data, ttl, t) ==
  IF ~isLocalStorageAvailable(env, ls)
  THEN [value |-> FALSE, ls |-> ls, writes |-> 0]
  ELSE LET first == writeEntry(env, ls, key, data, ttl, t) IN
       IF first.error = "none" THEN [value |-> TRUE, ls |-> first.ls, writes |-> 1]
       ELSE IF first.error = "QuotaExceededError"
            THEN LET retry == writeEntry(env, cleanupExpiredCacheIn(env, ls, t),
                                         key, data, ttl, t)
                 IN [value |-> retry.error = "none", ls |-> retry.ls, writes |-> 2]
            ELSE [value |-> FALSE, ls |-> ls, writes |-> 1]

getFromCacheIn(env, ls, key, t) ==
  IF ~isLocalStorageAvailable(env, ls) THEN [value |-> JsNull, ls |-> ls]
  ELSE getFromCache(ls, key, t)

QuotaKeys == {DASHBOARD_DATA, LAST_VALID_DATA, PROFILE_CURRENT}
QuotaData == {Snap("default", 1), Cyclic}
QuotaTtls == {Num(1), Infinity}

\* the browser's storage: blocked or not, and its quota
InitQuota ==
  /\ now = StartTime
  /\ ticks = 0
  /\ localStorage = [k \in StorageKeys |-> IF k = ForeignKey THEN ForeignItem ELSE NoItem]
  /\ written = [k \in CACHE_KEYS |-> NoWrite]
  /\ ret = [op |-> "none"]
  /\ ws = wsConstructed
  /\ sockets = {}
  /\ created = 0
  /\ wsLog = NoLog
  /\ hook = hookInitial
  /\ prof = profInitial
  /\ \E accessible \in BOOLEAN, quota \in (EntrySize + ProbeSize)..MaxQuota :
       backend = [snapshot |-> JsNull, profile |-> JsNull, pushes |-> 0,
                  storage |-> [accessible |-> accessible, quota |-> quota]]
  /\ ev = [op |-> "init"]

SaveToCacheInCall ==
  \E key \in QuotaKeys, data \in QuotaData, ttl \in QuotaTtls :
    LET r == saveToCacheIn(backend.storage, localStorage, key, data, ttl, now) IN
    /\ localStorage' = r.ls
    /\ written' = IF r.value THEN noteWrite(written, key, data, ttl, now) ELSE written
    /\ ret' = [op |-> "saveToCache", key |-> key, value |-> Bool(r.value)]
    /\ ev' = [op |-> "saveToCache", data |-> data, ttl |-> ttl, writes |-> r.writes]
    /\ StorageFrame

GetFromCacheInCall ==
  \E key \in QuotaKeys :
    LET r == getFromCacheIn(backend.storage, localStorage, key, now) IN
    /\ localStorage' = r.ls
    /\ ret' = [op |-> "getFromCache", key |-> key, value |-> r.value]
    /\ ev' = [op |-> "getFromCache"]
    /\ UNCHANGED written
    /\ StorageFrame

NextQuota ==
  \/ Tick(MaxQuotaTicks, TickSteps)
  \/ SaveToCacheInCall
  \/ GetFromCacheInCall

SpecQuota == InitQuota /\ [][NextQuota]_vars

(***************************************************************************)
(* Claims about a failing storage (SpecQuota)                              *)
(***************************************************************************)
\* C30: saveToCache returns a boolean and getFromCache a value; over a storage
\* whose access throws saveToCache returns false and getFromCache null, storing
\* nothing; when the storage has no room for the entry, saveToCache removes the
\* expired namespaced entries and writes the entry a second time, returning true
\* with the entry stored if it fits then and false otherwise
C30_FullStorageCleansAndRetriesOnce ==
  [][LET env == backend.storage
         k == getNamespacedKey(ret'.key)
         item == JSONStringify([data |-> ev'.data, timestamp |-> now, ttl |-> ev'.ttl])
         cleaned == cleanupExpiredCache(localStorage, now)
     IN /\ (ev'.op = "saveToCache" /\ ~env.accessible) =>
             ret'.value = Bool(FALSE) /\ localStorage' = localStorage
        /\ (ev'.op = "getFromCache" /\ ~env.accessible) =>
             ret'.value = JsNull /\ localStorage' = localStorage
        /\ (/\ ev'.op = "saveToCache"
            /\ env.accessible
            /\ ev'.data # Cyclic
            /\ ~Fits(env, localStorage, k, item)) =>
             /\ ev'.writes = 2
             /\ ret'.value = Bool(Fits(env, cleaned, k, item))
             /\ localStorage' = IF Fits(env, cleaned, k, item)
                                THEN setItem(cleaned, k, item) ELSE cleaned]_vars

(***************************************************************************)
(* One gateway request in time: fetch raced against the timeout, then the  *)
(* body read by _handleResponse, then wrapApiCall                          *)
(***************************************************************************)
REQUEST_TIMEOUT == 10000
MaxRequestTicks == 3
MaxRequests == 2

ApiErrorWith(message, status, data) ==
  [ok |-> FALSE, typed |-> TRUE, message |-> message, status |-> status, data |-> data]

\* a || b of two values
OrElseValue(a, b) == IF Truthy(a) THEN a ELSE b

\* the bodies a response may carry once read: JSON of an object, text that
\* response.json() rejects, and a stream that breaks while it is read
ResponseBodies ==
  { [read |-> "json", value |-> Obj([servedBy |-> Num(1)])],
    [read |-> "json", value |-> Obj([message |-> Str("boom")])],
    [read |-> "json", value |-> Obj([error |-> Str("bad")])],
    [read |-> "invalid"],
    [read |-> "broken"] }

StatusCodes == {200, 500}
HttpMessage(status) == Str(IF status = 500 THEN "HTTP 500" ELSE "HTTP 200")

\* _handleResponse once the body has been read: what it returns or throws
handleResponse(response, body) ==
  LET data == IF response.isJson
              THEN IF body.read = "json" THEN body.value ELSE JsNull
              ELSE IF body.read = "json" THEN Str("text") ELSE Str("")
  IN IF ~response.isJson /\ body.read = "broken"
     THEN [ok |-> FALSE, typed |-> FALSE, message |-> "Failed to fetch"]
     ELSE IF response.status # 200
          THEN ApiErrorWith(OrElseValue(Get(data, "message"),
                              OrElseValue(Get(data, "error"), HttpMessage(response.status))).val,
                            response.status, data)
          ELSE Returned(data)

\* _handleError: an ApiError passes; anything else becomes one
handleErrorOf(error) ==
  IF error.typed THEN error
  ELSE IF error.message = "Request timeout"
       THEN ApiErrorWith("Request timeout - please try again", 408, JsNull)
       ELSE IF error.message = "Failed to fetch"
            THEN ApiErrorWith("Network error - cannot reach server", 0, JsNull)
            ELSE ApiErrorWith(error.message, 0, JsNull)

\* the catch of apiClient.get and post around the race and _handleResponse
settled(outcome) == IF outcome.ok THEN outcome ELSE handleErrorOf(outcome)

NoRequest == [phase |-> "idle"]

InitRequest ==
  /\ now = StartTime
  /\ ticks = 0
  /\ localStorage = [k \in StorageKeys |-> IF k = ForeignKey THEN ForeignItem ELSE NoItem]
  /\ written = [k \in CACHE_KEYS |-> NoWrite]
  /\ ret = [op |-> "none"]
  /\ ws = wsConstructed
  /\ sockets = {}
  /\ created = 0
  /\ wsLog = NoLog
  /\ hook = hookInitial
  /\ prof = profInitial
  /\ backend = [snapshot |-> JsNull, profile |-> JsNull, pushes |-> 0,
                request |-> NoRequest, requests |-> 0]
  /\ ev = [op |-> "init"]

RequestFrame ==
  UNCHANGED <<localStorage, written, ws, sockets, created, wsLog, hook, prof>>

\* the request has settled with outcome: the wrapped function resolves
Settle(outcome) ==
  /\ backend' = [backend EXCEPT !.request = NoRequest]
  /\ ret' = [op |-> "request", outcome |-> outcome, resolved |-> wrapApiCall(outcome),
             startedAt |-> backend.request.startedAt, at |-> now]

\* time passes; the timeout of a request still racing fires when it is due, not later
RequestTick ==
  \E d \in {1, REQUEST_TIMEOUT} :
    /\ ticks < MaxRequestTicks
    /\ backend.request.phase = "racing" =>
         now + d <= backend.request.startedAt + REQUEST_TIMEOUT
    /\ now' = now + d
    /\ ticks' = ticks + 1
    /\ ev' = [op |-> "tick"]
    /\ UNCHANGED <<ret, backend>>
    /\ RequestFrame

\* getDashboardData, getProfile, setProfile or refreshDashboard is called
RequestCall ==
  /\ backend.request.phase = "idle"
  /\ backend.requests < MaxRequests
  /\ backend' = [backend EXCEPT !.request = [phase |-> "racing", startedAt |-> now],
                                !.requests = @ + 1]
  /\ ev' = [op |-> "request_call"]
  /\ UNCHANGED <<now, ticks, ret>>
  /\ RequestFrame

\* fetch resolves with the response's status and headers: the race is won
ResponseArrives ==
  \E status \in StatusCodes, isJson \in BOOLEAN :
    /\ backend.request.phase = "racing"
    /\ backend' = [backend EXCEPT !.request =
                     [phase |-> "reading", startedAt |-> @.startedAt,
                      response |-> [status |-> status, isJson |-> isJson]]]
    /\ ev' = [op |-> "response"]
    /\ UNCHANGED <<now, ticks, ret>>
    /\ RequestFrame

\* fetch rejects: the server cannot be reached
FetchRejects ==
  /\ backend.request.phase = "racing"
  /\ Settle(settled([ok |-> FALSE, typed |-> FALSE, message |-> "Failed to fetch"]))
  /\ ev' = [op |-> "fetch_rejected"]
  /\ UNCHANGED <<now, ticks>>
  /\ RequestFrame

\* the timer of createTimeout fires while the race is open
TimeoutFires ==
  /\ backend.request.phase = "racing"
  /\ now >= backend.request.startedAt + REQUEST_TIMEOUT
  /\ Settle(settled([ok |-> FALSE, typed |-> FALSE, message |-> "Request timeout"]))
  /\ ev' = [op |-> "timeout"]
  /\ UNCHANGED <<now, ticks>>
  /\ RequestFrame

\* response.json() or response.text() settles, whenever the body has come
BodyRead ==
  \E body \in ResponseBodies :
    /\ backend.request.phase = "reading"
    /\ Settle(settled(handleResponse(backend.request.response, body)))
    /\ ev' = [op |-> "body_read"]
    /\ UNCHANGED <<now, ticks>>
    /\ RequestFrame

NextRequest ==
  \/ RequestTick
  \/ RequestCall
  \/ ResponseArrives
  \/ FetchRejects
  \/ TimeoutFires
  \/ BodyRead

SpecRequest == InitRequest /\ [][NextRequest]_vars

(***************************************************************************)
(* Claims about a gateway request (SpecRequest)                            *)
(***************************************************************************)
\* C31: a request that fails settles with one ApiError, which for a non-2xx
\* response carries the status and the parsed body, and the wrapped function
\* resolves to {success: false, error}; no request is still unsettled more than
\* REQUEST_TIMEOUT after it was made
C31_FailedRequestIsTypedAndTimely ==
  /\ (ret.op = "request" /\ ~ret.outcome.ok) =>
       /\ ret.outcome.typed
       /\ Get(ret.resolved, "success") = Bool(FALSE)
       /\ Get(ret.resolved, "error") = Str(ret.outcome.message)
  /\ backend.request.phase # "idle" =>
       now - backend.request.startedAt <= REQUEST_TIMEOUT

(***************************************************************************)
(* utils/dateTime.js: the connection indicator                             *)
(***************************************************************************)
DEFAULT_STALE_THRESHOLD == 60000
MaxIndicatorTicks == 3

DateAt(t) == [kind |-> "date", time |-> t]
NaN == [kind |-> "nan"]

\* the timestamp isDataStale converts lastUpdated to: getTime() of a Date, of the
\* Date parsed from a string (NaN when it is no date), or the number itself
timestampOf(lastUpdated) ==
  CASE lastUpdated.kind = "date" -> Num(lastUpdated.time)
    [] lastUpdated.kind = "string" ->
         IF "iso" \in DOMAIN lastUpdated THEN Num(lastUpdated.iso) ELSE NaN
    [] lastUpdated.kind = "number" -> lastUpdated
    [] OTHER -> Undefined

isDataStale(lastUpdated, threshold, t) ==
  IF lastUpdated \in {JsNull, Undefined, Num(0), Str("")} THEN TRUE
  ELSE LET timestamp == timestampOf(lastUpdated) IN
       IF timestamp = Undefined \/ timestamp = NaN THEN TRUE
       ELSE t - timestamp.val > threshold

\* an indicator that is red whenever the WebSocket is down
getConnectionStatusRedWhenDown(wsConnected, lastUpdated, staleThreshold, t) ==
  IF ~wsConnected
  THEN [status |-> "disconnected", message |-> "Connection lost", showIndicator |-> TRUE]
  ELSE IF isDataStale(lastUpdated, staleThreshold, t)
       THEN [status |-> "stale", message |-> "Reconnecting...", showIndicator |-> TRUE]
       ELSE [status |-> "live", message |-> "Live updates", showIndicator |-> FALSE]

getConnectionStatus(wsConnected, lastUpdated, staleThreshold, t) ==
  IF wsConnected /\ ~isDataStale(lastUpdated, staleThreshold, t)
  THEN [status |-> "live", message |-> "Live updates", showIndicator |-> FALSE]
  ELSE IF wsConnected /\ isDataStale(lastUpdated, staleThreshold, t)
  THEN [status |-> "stale", message |-> "Reconnecting...", showIndicator |-> TRUE]
  ELSE IF ~wsConnected /\ ~isDataStale(lastUpdated, staleThreshold, t)
  THEN [status |-> "stale", message |-> "Using cached data", showIndicator |-> TRUE]
  ELSE [status |-> "disconnected", message |-> "Connection lost", showIndicator |-> TRUE]

\* what a layout may pass as lastUpdated at time t: nothing, or the time of an
\* update made at t or earlier as a Date, an ISO string or a number; or a string
\* that is no date
LastUpdatedValues(t) ==
  {JsNull, Str("never")} \cup
  UNION {{DateAt(u), toISOString(u), Num(u)} :
           u \in {x \in {StartTime, t - DEFAULT_STALE_THRESHOLD, t - 1, t} : x >= StartTime}}

\* ConnectionIndicator renders
IndicatorRenders ==
  \E wsConnected \in BOOLEAN, lastUpdated \in LastUpdatedValues(now) :
    /\ ret' = [op |-> "getConnectionStatus", wsConnected |-> wsConnected,
               lastUpdated |-> lastUpdated,
               value |-> getConnectionStatus(wsConnected, lastUpdated,
                                             DEFAULT_STALE_THRESHOLD, now)]
    /\ ev' = [op |-> "render"]
    /\ UNCHANGED <<now, ticks, localStorage, written, ws, sockets, created, wsLog,
                   hook, prof, backend>>

NextIndicator ==
  \/ Tick(MaxIndicatorTicks, {1, DEFAULT_STALE_THRESHOLD})
  \/ IndicatorRenders

SpecIndicator == Init /\ [][NextIndicator]_vars

(***************************************************************************)
(* Claims about the connection indicator (SpecIndicator)                   *)
(***************************************************************************)
\* the indicator was rendered, for data updated at a known time
Rendered == ret.op = "getConnectionStatus" /\ ev.op = "render"
DataTimed == ret.lastUpdated.kind \in {"date", "number"} \/
             (ret.lastUpdated.kind = "string" /\ "iso" \in DOMAIN ret.lastUpdated)
DataAge ==
  now - (CASE ret.lastUpdated.kind = "date" -> ret.lastUpdated.time
           [] ret.lastUpdated.kind = "number" -> ret.lastUpdated.val
           [] OTHER -> ret.lastUpdated.iso)

DataFresh == DataTimed /\ DataAge <= DEFAULT_STALE_THRESHOLD

DocumentedTransitions ==
  { <<DISCONNECTED, CONNECTING>>, <<CONNECTING, CONNECTED>>, <<CONNECTED, DISCONNECTED>>,
    <<CONNECTING, ERROR>>, <<ERROR, CONNECTING>> }
    \cup {<<from, DISCONNECTED>> : from \in WS_STATES}

\* C33: every step that changes the channel's state takes it along a documented
\* transition, and to disconnected from connecting or error only by disconnect().
\* A connect() whose socket cannot be created makes two changes in one step,
\* to connecting and on to error, and is judged by its first
C33_OnlyDocumentedTransitions ==
  [][ws'.state # ws.state =>
       IF ev'.op = "connect_threw"
       THEN <<ws.state, CONNECTING>> \in DocumentedTransitions
       ELSE /\ <<ws.state, ws'.state>> \in DocumentedTransitions
            /\ (ws.state \in {CONNECTING, ERROR} /\ ws'.state = DISCONNECTED) =>
                 ev'.op = "disconnect"]_vars

(***************************************************************************)
(* Reconnecting after an error: the browser delivers the events of every   *)
(* socket and fires every timer that is set, which is the fairness here    *)
(***************************************************************************)
MaxReconnectSockets == 4

NextReconnect ==
  \/ ConnectCall(MaxReconnectSockets, MaxBackoffLive)
  \/ ConnectCallThrows
  \/ ReconnectTimerFires(MaxReconnectSockets, MaxBackoffLive)
  \/ SockOpen
  \/ SockError
  \/ SockClose

SpecReconnect ==
  /\ Init
  /\ [][NextReconnect]_vars
  /\ WF_vars(SockClose)
  /\ WF_vars(ReconnectTimerFires(MaxReconnectSockets, MaxBackoffLive))

\* C34: whenever the channel is in state error with auto-reconnect enabled (and
\* the run may still construct a socket), the state becomes connecting again
C34_ErrorLeadsToConnecting ==
  (ws.state = ERROR /\ ws.shouldReconnect /\ created < MaxReconnectSockets)
    ~> (ws.state = CONNECTING)

(***************************************************************************)
(* The state:change events of the client: every step of the channel with   *)
(* the events its _setState calls emit, in order                           *)
(***************************************************************************)
MaxStateSockets == 3

\* the {oldState, newState} of the state:change events a step emits: oldState is
\* this.state as _setState reads it before assigning
RECURSIVE stateChangeEvents(_, _)
stateChangeEvents(state, emitted) ==
  IF emitted = <<>> THEN <<>>
  ELSE <<[oldState |-> state, newState |-> Head(emitted)]>>
         \o stateChangeEvents(Head(emitted), Tail(emitted))

\* a step r of the client, seen by a subscriber of state:change
EmittingStep(r, what) ==
  /\ ws' = r.ws
  /\ sockets' = r.sockets
  /\ wsLog' = r.log
  /\ ev' = [op |-> what, before |-> ws.state,
            emitted |-> stateChangeEvents(ws.state, r.chg)]
  /\ UNCHANGED <<now, ticks, localStorage, written, ret, hook, prof, backend>>

EmittingConnect ==
  LET r == connect(ws, sockets, created + 1) IN
  /\ created < MaxStateSockets
  /\ Cardinality(r.sockets) <= MaxLiveSockets
  /\ created' = IF Constructs(r) THEN created + 1 ELSE created
  /\ EmittingStep(r, "connect")

EmittingConnectThrows ==
  /\ ev.op # "connect_threw"
  /\ UNCHANGED created
  /\ EmittingStep(connectThrows(ws, sockets), "connect_threw")

EmittingDisconnect ==
  /\ ev.op # "disconnect"
  /\ UNCHANGED created
  /\ EmittingStep(disconnect(ws, sockets), "disconnect")

EmittingReconnect ==
  LET r == reconnectTimerFires(ws, sockets, created + 1) IN
  /\ ws.reconnectTimer
  /\ created < MaxStateSockets
  /\ Cardinality(r.sockets) <= MaxLiveSockets
  /\ created' = IF Constructs(r) THEN created + 1 ELSE created
  /\ EmittingStep(r, "reconnect_timer")

EmittingOpen ==
  \E s \in sockets :
    /\ s.status = "connecting"
    /\ UNCHANGED created
    /\ EmittingStep(handleOpen(ws, withStatus(sockets, s, "open"), now), "sock_open")

EmittingError ==
  \E s \in sockets :
    /\ s.status \in {"connecting", "open", "closingEarly"}
    /\ UNCHANGED created
    /\ EmittingStep(handleError(ws, withStatus(sockets, s, "failed")), "sock_error")

EmittingClose ==
  \E s \in sockets :
    /\ s.status \in {"open", "closing", "closingEarly", "failed"}
    /\ UNCHANGED created
    /\ EmittingStep(handleClose(ws, sockets \ {s}), "sock_close")

NextStates ==
  \/ EmittingConnect
  \/ EmittingConnectThrows
  \/ EmittingDisconnect
  \/ EmittingReconnect
  \/ EmittingOpen
  \/ EmittingError
  \/ EmittingClose

SpecStates == Init /\ [][NextStates]_vars

\* the events of a step lead from state before to state after, each a change
RECURSIVE ChainOfChanges(_, _, _)
ChainOfChanges(before, events, after) ==
  IF events = <<>> THEN before = after
  ELSE /\ Head(events).oldState = before
       /\ Head(events).newState # before
       /\ Head(events).newState \in WS_STATES
       /\ ChainOfChanges(Head(events).newState, Tail(events), after)

\* C35: the state is always one of the four states, and the state:change events of
\* every step are exactly its changes of state: each carries the state before it
\* as oldState and a different state after it as newState, the first starts at
\* the state before the step and the last ends at the state after it; a step
\* that makes no change emits none
C35_EveryChangeEmitsOnce ==
  /\ ws.state \in WS_STATES
  /\ "emitted" \in DOMAIN ev => ChainOfChanges(ev.before, ev.emitted, ws.state)

\* a connect() whose socket cannot be created, called in state error, emitted
\* two events: to connecting and back to error
C35_Witness ==
  /\ ev.op = "connect_threw"
  /\ Len(ev.emitted) = 2
  /\ ev.before = ERROR
  /\ ws.state = ERROR

(***************************************************************************)
(* Claims about what a partial update leaves alone (SpecMerge)             *)
(***************************************************************************)
\* C36: a partial dashboard:update changes the snapshot in memory only: the stored
\* dashboard_data and last-known-good entries, value and creation time, are after
\* it what they were before it, and so is every other item of the storage
C36_PartialLeavesCacheAlone ==
  [][ev'.op = "push_partial" =>
       /\ localStorage' = localStorage
       /\ written' = written]_vars

\* a partial update was merged over cached data: memory and cache now differ
C36_Witness ==
  /\ ev.op = "push_partial"
  /\ localStorage[getNamespacedKey(DASHBOARD_DATA)] # NoItem
  /\ localStorage[getNamespacedKey(LAST_VALID_DATA)] # NoItem
  /\ hook.data # ev.before
  /\ hook.data # JSONParse(localStorage[getNamespacedKey(DASHBOARD_DATA)]).data

(***************************************************************************)
(* Claims about what reading the cache leaves alone (Spec)                 *)
(***************************************************************************)
SnapshotKeys == {getNamespacedKey(DASHBOARD_DATA), getNamespacedKey(LAST_VALID_DATA)}

\* C37: only a successful fetch or a full push writes the dashboard_data and
\* last-known-good entries: after any other step, exposing cached data in the
\* cache-first step or in the failure fallback included, an entry that is stored
\* is the entry stored before the step, value and creation time
C37_OnlyFreshDataIsCached ==
  [][ev'.op \notin {"fetch_ok", "push_full"} =>
       \A k \in SnapshotKeys :
         localStorage'[k] # NoItem => localStorage'[k] = localStorage[k]]_vars

\* C38: lastUpdated advances only when a gateway fetch succeeds or a push
\* update is applied: no other step, exposing cached or last-known-good data
\* included, leaves the hook with a new time of last update
C38_LastUpdatedOnlyOnFreshData ==
  [][(hook'.lastUpdated # hook.lastUpdated /\ hook'.lastUpdated # JsNull) =>
       ev'.op \in {"fetch_ok", "push_full", "push_partial"}]_vars

(***************************************************************************)
(* Responses that arrive after the profile has changed (Spec)              *)
(***************************************************************************)
\* the snapshot is the gateway's answer for this profile
SnapshotFor(snapshot, profile) ==
  HasKey(snapshot, "mode") /\ Get(snapshot, "mode") = Str(profile)

\* a successful response to a request made for this profile arrives in the step
ResponseArrivesFor(profile) ==
  /\ ev'.op = "fetch_ok"
  /\ hook.mounted
  /\ hook'.inflight[profile] < hook.inflight[profile]

\* C39: once the response for the active profile has been applied, a response
\* for the profile that was active before, arriving later, does not overwrite
\* it: the exposed snapshot and the dashboard_data entry stay the active
\* profile's
C39_LateResponseDoesNotOverwrite ==
  [][(/\ ev.op = "fetch_ok"
      /\ SnapshotFor(hook.data, hook.profileRef)
      /\ \E p \in SyncProfiles \ {hook.profileRef} : ResponseArrivesFor(p))
     => /\ SnapshotFor(hook'.data, hook.profileRef)
        /\ localStorage'[getNamespacedKey(DASHBOARD_DATA)] # NoItem
        /\ SnapshotFor(localStorage'[getNamespacedKey(DASHBOARD_DATA)].data,
                       hook.profileRef)]_vars

(***************************************************************************)
(* useProfile given any profile id: ids PROFILES defines, an id unknown to *)
(* it, and a name every object inherits                                    *)
(***************************************************************************)
AnyProfileIds == {"default", "guest", "kiosk", "constructor"}
MaxAnyCalls == 1
MaxAnyPushes == 1

NextProfileAny ==
  \/ ProfMount
  \/ ProfInitSettle(AnyProfileIds)
  \/ SetProfileCall(AnyProfileIds, MaxAnyCalls)
  \/ SetProfileSettle
  \/ PushProfileChanged(AnyProfileIds, MaxAnyPushes)

SpecProfileAny == Init /\ [][NextProfileAny]_vars

\* C40: in every state of the mounted hook, whose default is a known profile,
\* currentProfile is one of the known profiles and profileConfig is the
\* configuration PROFILES defines for it
C40_CurrentProfileIsKnown ==
  prof.mounted =>
    /\ prof.currentProfile \in KnownProfiles
    /\ prof.profileConfig = Obj([id |-> Str(prof.currentProfile)])

====
